---- MODULE Spec2Model ----
(***************************************************************************)
(* A model of the gRPC-MCP-SDK: the A2A workflow orchestrator              *)
(* (grpc_mcp_sdk/a2a_extensions.py), the tool registry with its simple     *)
(* rate limiter (grpc_mcp_sdk/core/registry.py), the tool declaration      *)
(* wrappers (core/decorators.py, utils/validation.py) and the result       *)
(* conversion between server and client (core/server.py, core/client.py).  *)
(***************************************************************************)
EXTENDS Integers, Sequences, FiniteSets, TLC

(***************************************************************************)
(* Bounds of the model.                                                    *)
(***************************************************************************)
MaxDeps == 2
MaxRetry == 2

\* The step ids a workflow may use, in the insertion order of step_map.
StepOrder == <<"A", "B", "C">>
StepIds == {StepOrder[i] : i \in 1..Len(StepOrder)}
\* "X" is an id that names no step of any workflow.
DepIds == StepIds \cup {"X"}

VARIABLES
    \* ---- A2AWorkflowOrchestrator.execute_workflow ----
    step_map,           \* step_id -> [depends_on, ...] of the workflow being run
    parallel_execution, \* the mode argument
    wf_pc,              \* position of execute_workflow
    active_workflows,   \* self._active_workflows (its keys)
    completed_steps,    \* keys of completed_steps
    remaining_steps,    \* parallel mode: remaining_steps
    ready_steps,        \* parallel mode: ready_steps of the current wave, in order
    sorted_steps,       \* sequential mode: result of _topological_sort
    seq_idx,            \* sequential mode: position in sorted_steps
    task,               \* step_id -> state of its _execute_workflow_step call
    wf_result,          \* the WorkflowResult returned
    wf_hist             \* history: what the run has seen so far

wfVars == <<step_map, parallel_execution, wf_pc, active_workflows, completed_steps,
            remaining_steps, ready_steps, sorted_steps, seq_idx, task, wf_result,
            wf_hist>>

VARIABLES
    \* ---- ToolRegistry and its RateLimiter ----
    tools,              \* ToolRegistry.tools: name -> Tool
    requests,           \* RateLimiter.requests: name -> list of call times
    now,                \* time.time()
    last,               \* the last operation on the registry and its outcome
    stream,             \* the streaming call in progress (ToolRegistry.stream_tool)
    reg_hist            \* history: the calls admitted so far

regVars == <<tools, requests, now, last, stream, reg_hist>>

VARIABLES
    \* ---- One ExecuteTool call between MCPClient and MCPServicer ----
    rpc                 \* the call: its request, its response, what the client got

rpcVars == <<rpc>>

VARIABLES
    \* ---- security/rate_limiter.py: a TokenBucket, a RateLimiter ----
    sec                 \* the clock, the bucket(s), the last call and the calls so far

secVars == <<sec>>

VARIABLES
    \* ---- auth/: the handlers and what they were last asked ----
    auth                \* the clock, a JWTAuthHandler and a token, a TokenAuthHandler

authVars == <<auth>>

VARIABLES
    \* ---- a2a_extensions.py: the A2AAgentRegistry ----
    a2a                 \* the clock, _agents, _capabilities and the last lookup;
                        \* a workflow step whose arguments are prepared;
                        \* a capability executed by an A2AAgentClient

a2aVars == <<a2a>>

VARIABLES
    \* ---- core/registry.py: ToolRegistry reached from several threads ----
    shared              \* the class attributes _global_instance and _lock, the
                        \* tools of one registry, and where each thread stands

sharedVars == <<shared>>

vars == <<wfVars, regVars, rpcVars, secVars, authVars, a2aVars, sharedVars>>

\* What the operations of one component leave alone.
notWf == <<regVars, rpcVars, secVars, authVars, a2aVars, sharedVars>>
notRegRpc == <<wfVars, secVars, authVars, a2aVars, sharedVars>>
notSec == <<wfVars, regVars, rpcVars, authVars, a2aVars, sharedVars>>
notAuth == <<wfVars, regVars, rpcVars, secVars, a2aVars, sharedVars>>
notA2a == <<wfVars, regVars, rpcVars, secVars, authVars, sharedVars>>
notShared == <<wfVars, regVars, rpcVars, secVars, authVars, a2aVars>>

(***************************************************************************)
(* Helpers                                                                 *)
(***************************************************************************)
Range(f) == {f[i] : i \in DOMAIN f}

\* All orders in which the elements of a finite set can be listed.
Perms(S) ==
    {f \in [1..Cardinality(S) -> S] : \A i, j \in 1..Cardinality(S) : f[i] = f[j] => i = j}

RECURSIVE Pow2(_)
Pow2(n) == IF n = 0 THEN 1 ELSE 2 * Pow2(n - 1)

\* The ids of a set listed in the order of StepOrder.
InOrder(S) == SelectSeq(StepOrder, LAMBDA x : x \in S)

WorkflowId == "wf"

NoResult == [success |-> FALSE, steps |-> {}, error |-> "none", returned |-> FALSE]

\* attempts: the delegate_task calls made; sleeps: the asyncio.sleep calls
\* made; last_exception: None (<<>>) or the attempt whose exception it holds.
IdleTask == [st |-> "idle", retry_count |-> 0, attempt |-> 0, sleep |-> 0,
             error |-> "none", attempts |-> 0, sleeps |-> <<>>,
             last_exception |-> <<>>]

\* The orchestrator after construction, before any execute_workflow call.
WfRest ==
    /\ wf_pc = "init"
    /\ active_workflows = {}
    /\ completed_steps = {}
    /\ remaining_steps = {}
    /\ ready_steps = <<>>
    /\ sorted_steps = <<>>
    /\ seq_idx = 1
    /\ task = [s \in StepIds |-> IdleTask]
    /\ wf_result = NoResult
    /\ wf_hist = [begun_with |-> [s \in StepIds |-> {"-"}],
                  attempt_failed |-> FALSE,
                  no_attempts |-> FALSE]

\* No workflow is being executed.
WfIdle ==
    /\ step_map = <<>>
    /\ parallel_execution = TRUE
    /\ WfRest

(***************************************************************************)
(* security/rate_limiter.py: TokenBucket.                                  *)
(* The clock counts whole seconds.  A refill rate is requests_per_minute   *)
(* / 60.0 tokens per second, so a token count is kept in sixtieths of a    *)
(* token (the field tokens60) and every quantity is an exact integer.      *)
(***************************************************************************)
MaxCapacity == 2
MaxTokens == 2
MaxTime == 3
MaxOps == 5
MaxWait == 1

\* RateLimiter.__init__: refill_rate = config.requests_per_minute / 60.0.
SecondsPerMinute == 60

Min(a, b) == IF a <= b THEN a ELSE b

\* self.tools[name] = tool   and   del self.tools[name]
DictSet(d, key, value) == [k \in DOMAIN d \cup {key} |-> IF k = key THEN value ELSE d[k]]
DictDel(d, key) == [k \in DOMAIN d \ {key} |-> d[k]]

\* TokenBucket.__init__ at time t: full, last refilled now.
TokenBucket(capacity, requests_per_minute, t) ==
    [capacity |-> capacity,
     tokens60 |-> SecondsPerMinute * capacity,
     refill_rate |-> requests_per_minute,
     last_refill |-> t]

\* TokenBucket._refill without the cap at the capacity.
_refill_uncapped(b, t) ==
    [b EXCEPT !.tokens60 = @ + (t - b.last_refill) * b.refill_rate,
              !.last_refill = t]

\* TokenBucket._refill at time t.
_refill(b, t) ==
    [b EXCEPT !.tokens60 = Min(SecondsPerMinute * b.capacity,
                               @ + (t - b.last_refill) * b.refill_rate),
              !.last_refill = t]

\* TokenBucket.consume(tokens) at time t: the answer and the bucket after it.
consume(b, tokens, t) ==
    LET r == _refill(b, t)
    IN  IF r.tokens60 >= SecondsPerMinute * tokens
        THEN [ok |-> TRUE,
              bucket |-> [r EXCEPT !.tokens60 = @ - SecondsPerMinute * tokens]]
        ELSE [ok |-> FALSE, bucket |-> r]

\* A duration in seconds, as the fraction num / den.
Seconds(num, den) == [num |-> num, den |-> den]

\* TokenBucket.get_wait_time(tokens) at time t.
get_wait_time(b, tokens, t) ==
    LET r == _refill(b, t)
    IN  [wait |-> IF r.tokens60 >= SecondsPerMinute * tokens
                  THEN Seconds(0, 1)
                  ELSE Seconds(SecondsPerMinute * tokens - r.tokens60, r.refill_rate),
         bucket |-> r]

\* RateLimitConfig.requests_per_minute, the values tried.
Rates == {20, 30, 60}

NoBucketCall == [op |-> "none", tokens |-> 0, t |-> 0, ok |-> FALSE, wait |-> Seconds(0, 1)]

\* The threads that call into one limiter.
Threads == {"T1", "T2"}
NoThread == "none"

\* A thread outside every call: stack holds the methods it is in, outermost
\* first; keys and results are those of get_all_limits.
NoKwargs == [user_id |-> "", request_size |-> 0]
NoVerdict == [allowed |-> FALSE, limit |-> 0]
IdleThread ==
    [pc |-> "idle",
     stack |-> <<>>,
     original_limit |-> 0,
     adaptive_limit |-> 0,
     kwargs |-> NoKwargs,
     verdict |-> NoVerdict,
     keys |-> <<>>,
     results |-> {},
     returned |-> FALSE]

\* SecurityMiddleware.security_metrics as __init__ and
\* reset_security_metrics make it.
ZeroMetrics ==
    [requests_processed |-> 0,
     requests_blocked |-> 0,
     rate_limit_violations |-> 0,
     sanitization_violations |-> 0,
     auth_failures |-> 0]

\* The process_request calls that can be under way at once, and a slot
\* with no call in it.
RequestSlots == {"r1", "r2"}
NoArguments == [size |-> 0, dangerous |-> FALSE]
NoSecurityRequest == [pc |-> "none", tool_name |-> "", arguments |-> NoArguments, out |-> ""]

\* The SecurityConfig switches when there is no middleware.
NoMiddleware ==
    [enable_rate_limiting |-> FALSE,
     enable_input_sanitization |-> FALSE,
     enable_request_validation |-> FALSE]

\* No InputSanitizer, nothing given to it.
NoSanitizer == [max_json_depth |-> 0, called |-> FALSE, data |-> <<>>, raised |-> ""]

\* Nothing of the security package is in use.
NoSec ==
    [now |-> 0,
     config |-> [enabled |-> FALSE],
     refill_rate |-> 0,
     token_buckets |-> <<>>,
     lock |-> NoThread,
     load_history |-> <<>>,
     threads |-> [th \in Threads |-> IdleThread],
     calls |-> 0,
     middleware |-> NoMiddleware,
     security_metrics |-> ZeroMetrics,
     requests |-> [slot \in RequestSlots |-> NoSecurityRequest],
     done |-> 0,
     sanitizer |-> NoSanitizer,
     last |-> NoBucketCall,
     hist |-> <<>>,
     unit_only |-> TRUE,
     served |-> {}]

SecIdle == sec = NoSec

\* One bucket, just constructed.
BucketInit ==
    \E capacity \in 1..MaxCapacity, rpm \in Rates :
        sec = [NoSec EXCEPT !.token_buckets = [k \in {"bucket"} |-> TokenBucket(capacity, rpm, 0)]]

\* bucket.consume(tokens).  hist keeps the consumptions for as long as each
\* of them took one token.
BucketConsume(tokens) ==
    /\ Len(sec.hist) < MaxOps
    /\ LET c == consume(sec.token_buckets["bucket"], tokens, sec.now)
           call == [op |-> "consume", tokens |-> tokens, t |-> sec.now,
                    ok |-> c.ok, wait |-> Seconds(0, 1)]
           unit == sec.unit_only /\ tokens = 1
       IN  sec' = [sec EXCEPT !.token_buckets["bucket"] = c.bucket,
                              !.last = call,
                              !.unit_only = unit,
                              !.hist = IF unit THEN Append(@, call) ELSE <<>>]
    /\ UNCHANGED notSec

\* bucket.get_wait_time(tokens)
BucketGetWaitTime(tokens) ==
    /\ LET w == get_wait_time(sec.token_buckets["bucket"], tokens, sec.now)
           call == [op |-> "get_wait_time", tokens |-> tokens, t |-> sec.now,
                    ok |-> FALSE, wait |-> w.wait]
       IN  sec' = [sec EXCEPT !.token_buckets["bucket"] = w.bucket,
                              !.last = call]
    /\ UNCHANGED notSec

\* time.time() moves on by one second, up to a limit.
SecTickTo(limit) ==
    /\ sec.now < limit
    /\ sec' = [sec EXCEPT !.now = @ + 1]
    /\ UNCHANGED notSec

SecTick == SecTickTo(MaxTime)

(***************************************************************************)
(* security/rate_limiter.py: RateLimiter.                                  *)
(***************************************************************************)
\* RateLimitConfig.window_size: int = 60.
WindowSize == 60

\* An absent identifier: None and "" alike fail the test `and user_id`.
NoId == ""

UserIds == {NoId, "u1", "u2"}
ToolNames == {"t"}
IpAddresses == {"a"}

\* RateLimitConfig and its __post_init__.
RateLimitConfig(requests_per_minute, burst_size, per_user, per_tool, per_ip, enabled) ==
    [requests_per_minute |-> requests_per_minute,
     burst_size |-> Min(burst_size, requests_per_minute),
     window_size |-> WindowSize,
     per_user |-> per_user,
     per_tool |-> per_tool,
     per_ip |-> per_ip,
     enabled |-> enabled]

\* The keys of a call when the user id is left out of the user key.
RateLimitKeys_one_user_key(config, user_id, tool_name, ip_address) ==
    LET keys == (IF config.per_user /\ user_id /= NoId THEN <<"user:">> ELSE <<>>)
                \o (IF config.per_tool /\ tool_name /= NoId THEN <<"tool:" \o tool_name>> ELSE <<>>)
                \o (IF config.per_ip /\ ip_address /= NoId THEN <<"ip:" \o ip_address>> ELSE <<>>)
    IN  IF keys = <<>> THEN <<"global">> ELSE keys

\* check_rate_limit: the keys of a call, in the order they are checked.
RateLimitKeys(config, user_id, tool_name, ip_address) ==
    LET keys == (IF config.per_user /\ user_id /= NoId THEN <<"user:" \o user_id>> ELSE <<>>)
                \o (IF config.per_tool /\ tool_name /= NoId THEN <<"tool:" \o tool_name>> ELSE <<>>)
                \o (IF config.per_ip /\ ip_address /= NoId THEN <<"ip:" \o ip_address>> ELSE <<>>)
    IN  IF keys = <<>> THEN <<"global">> ELSE keys

\* The {} returned with an admitted call.
NoInfo == [key |-> "", limit |-> 0, window |-> 0,
           retry_after |-> Seconds(0, 1), tokens_remaining |-> 0]

\* The bucket of a key, made full on first use with the refill rate that
\* __init__ computed (kept per minute here).
BucketOf(buckets, config, refill_rate, key, t) ==
    IF key \in DOMAIN buckets
    THEN buckets[key]
    ELSE TokenBucket(config.burst_size, refill_rate, t)

\* RateLimiter._check_key_rate_limit(key, request_size) at time t.
_check_key_rate_limit(buckets, config, refill_rate, key, request_size, t) ==
    LET c == consume(BucketOf(buckets, config, refill_rate, key, t), request_size, t)
        w == get_wait_time(c.bucket, request_size, t)
    IN  IF c.ok
        THEN [allowed |-> TRUE,
              info |-> [NoInfo EXCEPT !.tokens_remaining = c.bucket.tokens60],
              buckets |-> DictSet(buckets, key, c.bucket)]
        ELSE [allowed |-> FALSE,
              info |-> [NoInfo EXCEPT !.retry_after = w.wait,
                                      !.tokens_remaining = w.bucket.tokens60],
              buckets |-> DictSet(buckets, key, w.bucket)]

\* The loop over the keys when only the first key is looked at.
CheckKeys_first_only(buckets, config, refill_rate, keys, request_size, t) ==
    IF keys = <<>>
    THEN [allowed |-> TRUE, info |-> NoInfo, buckets |-> buckets, consumed |-> {}]
    ELSE LET r == _check_key_rate_limit(buckets, config, refill_rate, Head(keys), request_size, t)
         IN  [allowed |-> r.allowed,
              info |-> IF r.allowed THEN NoInfo
                       ELSE [r.info EXCEPT !.key = Head(keys),
                                           !.limit = config.requests_per_minute,
                                           !.window = config.window_size],
              buckets |-> r.buckets,
              consumed |-> IF r.allowed THEN {Head(keys)} ELSE {}]

\* check_rate_limit: `for key in keys`, returning at the first key refused.
RECURSIVE CheckKeys(_, _, _, _, _, _)
CheckKeys(buckets, config, refill_rate, keys, request_size, t) ==
    IF keys = <<>>
    THEN [allowed |-> TRUE, info |-> NoInfo, buckets |-> buckets, consumed |-> {}]
    ELSE LET r == _check_key_rate_limit(buckets, config, refill_rate, Head(keys), request_size, t)
         IN  IF ~r.allowed
             THEN [allowed |-> FALSE,
                   info |-> [r.info EXCEPT !.key = Head(keys),
                                           !.limit = config.requests_per_minute,
                                           !.window = config.window_size],
                   buckets |-> r.buckets,
                   consumed |-> {}]
             ELSE LET rest == CheckKeys(r.buckets, config, refill_rate, Tail(keys), request_size, t)
                  IN  [rest EXCEPT !.consumed = @ \cup {Head(keys)}]

\* RateLimiter.check_rate_limit(user_id, tool_name, ip_address, request_size).
RateLimiter_check_rate_limit(buckets, config, refill_rate, user_id, tool_name, ip_address, request_size, t) ==
    IF ~config.enabled
    THEN [allowed |-> TRUE, info |-> NoInfo, buckets |-> buckets, consumed |-> {}]
    ELSE CheckKeys(buckets, config, refill_rate,
                   RateLimitKeys(config, user_id, tool_name, ip_address),
                   request_size, t)

\* RateLimiter.__init__: no bucket yet.
LimiterInit ==
    \E burst_size \in 1..MaxCapacity, per_user, per_tool, per_ip, enabled \in BOOLEAN :
        sec = [NoSec EXCEPT !.config = RateLimitConfig(SecondsPerMinute, burst_size,
                                                        per_user, per_tool, per_ip, enabled),
                            !.refill_rate = SecondsPerMinute]

\* One call of check_rate_limit.  served keeps who took tokens from which key.
CheckRateLimit(user_id, tool_name, ip_address, request_size) ==
    /\ LET r == RateLimiter_check_rate_limit(sec.token_buckets, sec.config,
                                             sec.refill_rate, user_id, tool_name,
                                             ip_address, request_size, sec.now)
       IN  sec' = [sec EXCEPT !.token_buckets = r.buckets,
                              !.last = [op |-> "check_rate_limit",
                                        user_id |-> user_id,
                                        tool_name |-> tool_name,
                                        ip_address |-> ip_address,
                                        request_size |-> request_size,
                                        allowed |-> r.allowed,
                                        info |-> r.info],
                              !.served = @ \cup {<<k, user_id>> : k \in r.consumed}]
    /\ UNCHANGED notSec

(***************************************************************************)
(* security/rate_limiter.py: AdaptiveRateLimiter, called from several      *)
(* threads.  cpu_usage and memory_usage are given in halves, so a load is  *)
(* a number of quarters and every sum and average below is exact.          *)
(***************************************************************************)
MaxSamples == 1
MaxAdaptiveCalls == 2

\* load_history = deque(maxlen=100)
HistoryMaxLen == 100
Quarters == 4
Halves == {0, 1, 2}

RECURSIVE Sum(_)
Sum(s) == IF s = <<>> THEN 0 ELSE Head(s) + Sum(Tail(s))

\* AdaptiveRateLimiter.update_server_load: the history after the append.
update_server_load(load_history, cpu_usage, memory_usage) ==
    LET load == cpu_usage + memory_usage
    IN  IF Len(load_history) = HistoryMaxLen
        THEN Append(Tail(load_history), load)
        ELSE Append(load_history, load)

\* int(requests_per_minute * 0.5), * 0.7, * 0.9, by the tenths.
Scaled(requests_per_minute, tenths) == (requests_per_minute * tenths) \div 10

\* AdaptiveRateLimiter._get_adaptive_limit: avg_load > 0.8, 0.6, 0.4 are
\* 5 * sum > 4, 3, 2 * Quarters * len.
_get_adaptive_limit(requests_per_minute, load_history) ==
    IF load_history = <<>>
    THEN requests_per_minute
    ELSE LET sum == Sum(load_history)
             len == Len(load_history)
         IN  IF 5 * sum > 4 * Quarters * len THEN Scaled(requests_per_minute, 5)
             ELSE IF 5 * sum > 3 * Quarters * len THEN Scaled(requests_per_minute, 7)
             ELSE IF 5 * sum > 2 * Quarters * len THEN Scaled(requests_per_minute, 9)
             ELSE requests_per_minute

\* AdaptiveRateLimiter.__init__: a limiter per user or global, no load known.
AdaptiveInit ==
    \E burst_size \in 1..MaxCapacity, per_user \in BOOLEAN :
        sec = [NoSec EXCEPT !.config = RateLimitConfig(SecondsPerMinute, burst_size,
                                                        per_user, FALSE, FALSE, TRUE),
                            !.refill_rate = SecondsPerMinute]

\* update_server_load(cpu_usage, memory_usage), from the monitoring side.
UpdateServerLoad(cpu_usage, memory_usage) ==
    /\ Len(sec.load_history) < MaxSamples
    /\ sec' = [sec EXCEPT !.load_history = update_server_load(@, cpu_usage, memory_usage)]
    /\ UNCHANGED notSec

\* check_rate_limit, line 290: original_limit = self.config.requests_per_minute.
AdaptiveCall(th, user_id, request_size) ==
    /\ sec.threads[th].pc = "idle"
    /\ sec.calls < MaxAdaptiveCalls
    /\ sec' = [sec EXCEPT !.calls = @ + 1,
                          !.threads[th] =
                              [IdleThread EXCEPT !.pc = "adapt",
                                                 !.stack = <<"check_rate_limit">>,
                                                 !.original_limit = sec.config.requests_per_minute,
                                                 !.kwargs = [user_id |-> user_id,
                                                             request_size |-> request_size]]]
    /\ UNCHANGED notSec

\* line 291, right-hand side: self._get_adaptive_limit().
AdaptiveCompute(th) ==
    /\ sec.threads[th].pc = "adapt"
    /\ sec' = [sec EXCEPT !.threads[th].pc = "store",
                          !.threads[th].adaptive_limit =
                              _get_adaptive_limit(sec.config.requests_per_minute,
                                                  sec.load_history)]
    /\ UNCHANGED notSec

\* line 291, the store into the shared config.
AdaptiveStore(th) ==
    /\ sec.threads[th].pc = "store"
    /\ sec' = [sec EXCEPT !.threads[th].pc = "check",
                          !.config.requests_per_minute = sec.threads[th].adaptive_limit]
    /\ UNCHANGED notSec

\* line 294: super().check_rate_limit(**kwargs).  The configuration gives one
\* key to a call, so the lock is taken and released once.
AdaptiveSuper(th) ==
    /\ sec.threads[th].pc = "check"
    /\ sec.lock = NoThread
    /\ LET kw == sec.threads[th].kwargs
           r == RateLimiter_check_rate_limit(sec.token_buckets, sec.config,
                                             sec.refill_rate, kw.user_id, NoId, NoId,
                                             kw.request_size, sec.now)
       IN  sec' = [sec EXCEPT !.token_buckets = r.buckets,
                              !.threads[th].pc = "restore",
                              !.threads[th].verdict =
                                  [allowed |-> r.allowed, limit |-> r.info.limit],
                              !.last = [op |-> "check_rate_limit",
                                        user_id |-> kw.user_id,
                                        tool_name |-> NoId,
                                        ip_address |-> NoId,
                                        request_size |-> kw.request_size,
                                        allowed |-> r.allowed,
                                        info |-> r.info],
                              !.served = @ \cup {<<k, kw.user_id>> : k \in r.consumed}]
    /\ UNCHANGED notSec

\* lines 295-297: finally, self.config.requests_per_minute = original_limit.
AdaptiveRestore(th) ==
    /\ sec.threads[th].pc = "restore"
    /\ sec' = [sec EXCEPT !.threads[th].pc = "idle",
                          !.threads[th].stack = <<>>,
                          !.threads[th].returned = TRUE,
                          !.config.requests_per_minute = sec.threads[th].original_limit]
    /\ UNCHANGED notSec

(***************************************************************************)
(* security/rate_limiter.py: the status calls of RateLimiter.  self.lock   *)
(* is a threading.Lock: whoever holds it, a second acquire waits until it  *)
(* is released.                                                            *)
(***************************************************************************)
MaxLimitCalls == 3

\* `for key in self.token_buckets`: the keys in one order.
RECURSIVE KeyList(_)
KeyList(keys) ==
    IF keys = {} THEN <<>>
    ELSE LET k == CHOOSE x \in keys : TRUE IN <<k>> \o KeyList(keys \ {k})

\* The dict get_rate_limit_status returns for a key at time t.
RateLimitStatus(buckets, config, key, t) ==
    IF key \notin DOMAIN buckets
    THEN [limit |-> config.requests_per_minute,
          remaining |-> config.burst_size,
          reset_time |-> t + 60,
          burst_capacity |-> 0]
    ELSE [limit |-> config.requests_per_minute,
          remaining |-> _refill(buckets[key], t).tokens60 \div SecondsPerMinute,
          reset_time |-> t + 60,
          burst_capacity |-> config.burst_size]

\* RateLimiter.__init__ in a server that limits per user.
LimitsInit ==
    \E burst_size \in 1..MaxCapacity :
        sec = [NoSec EXCEPT !.config = RateLimitConfig(SecondsPerMinute, burst_size,
                                                        TRUE, FALSE, FALSE, TRUE),
                            !.refill_rate = SecondsPerMinute]

\* check_rate_limit(user_id=...) by a thread: one key, so one turn with
\* the lock in _check_key_rate_limit.
CheckUnderLock(user_id, request_size) ==
    /\ sec.lock = NoThread
    /\ sec.calls < MaxLimitCalls
    /\ LET r == RateLimiter_check_rate_limit(sec.token_buckets, sec.config,
                                             sec.refill_rate, user_id, NoId, NoId,
                                             request_size, sec.now)
       IN  sec' = [sec EXCEPT !.token_buckets = r.buckets,
                              !.calls = @ + 1,
                              !.served = @ \cup {<<k, user_id>> : k \in r.consumed}]
    /\ UNCHANGED notSec

\* A thread calls get_rate_limit_status(key) and comes to `with self.lock`.
GetRateLimitStatusCall(th, key) ==
    /\ sec.threads[th].pc = "idle"
    /\ sec.calls < MaxLimitCalls
    /\ sec' = [sec EXCEPT !.calls = @ + 1,
                          !.threads[th] =
                              [IdleThread EXCEPT !.pc = "acquire",
                                                 !.stack = <<"get_rate_limit_status">>,
                                                 !.keys = <<key>>]]
    /\ UNCHANGED notSec

\* A thread calls get_all_limits, directly or from
\* SecurityMiddleware.get_security_metrics, and comes to `with self.lock`.
GetAllLimitsCall(th, from_metrics) ==
    /\ sec.threads[th].pc = "idle"
    /\ sec.calls < MaxLimitCalls
    /\ sec' = [sec EXCEPT !.calls = @ + 1,
                          !.threads[th] =
                              [IdleThread EXCEPT !.pc = "acquire",
                                                 !.stack =
                                                     (IF from_metrics
                                                      THEN <<"get_security_metrics">>
                                                      ELSE <<>>)
                                                     \o <<"get_all_limits">>]]
    /\ UNCHANGED notSec

\* `with self.lock:` entered: the lock was free and th holds it now.
LockAcquire(th) ==
    /\ sec.threads[th].pc = "acquire"
    /\ sec.lock = NoThread
    /\ sec' = [sec EXCEPT !.lock = th, !.threads[th].pc = "locked"]
    /\ UNCHANGED notSec

Top(stack) == stack[Len(stack)]
Pop(stack) == SubSeq(stack, 1, Len(stack) - 1)

\* get_all_limits, lines 229-230: results = {} and the iteration begins.
GetAllLimitsEnter(th) ==
    /\ sec.threads[th].pc = "locked"
    /\ Top(sec.threads[th].stack) = "get_all_limits"
    /\ sec' = [sec EXCEPT !.threads[th].pc = "loop",
                          !.threads[th].keys = KeyList(DOMAIN sec.token_buckets),
                          !.threads[th].results = {}]
    /\ UNCHANGED notSec

\* get_all_limits, lines 230-232: the next key is handed to
\* get_rate_limit_status, which comes to `with self.lock`; with no key left
\* the lock is released and results returned (and with it the metrics,
\* where get_security_metrics made the call).
GetAllLimitsNext(th) ==
    /\ sec.threads[th].pc = "loop"
    /\ IF sec.threads[th].keys = <<>>
       THEN sec' = [sec EXCEPT !.lock = NoThread,
                               !.threads[th].pc = "idle",
                               !.threads[th].stack = <<>>,
                               !.threads[th].returned = TRUE]
       ELSE sec' = [sec EXCEPT !.threads[th].pc = "acquire",
                               !.threads[th].stack = Append(@, "get_rate_limit_status")]
    /\ UNCHANGED notSec

\* get_rate_limit_status, lines 201-216, with the lock: the bucket is
\* refilled, the lock released and the status returned, to the caller
\* outside or to the loop of get_all_limits.
GetRateLimitStatusBody(th) ==
    /\ sec.threads[th].pc = "locked"
    /\ Top(sec.threads[th].stack) = "get_rate_limit_status"
    /\ LET me == sec.threads[th]
           key == Head(me.keys)
           status == RateLimitStatus(sec.token_buckets, sec.config, key, sec.now)
           buckets == IF key \in DOMAIN sec.token_buckets
                      THEN [sec.token_buckets EXCEPT ![key] = _refill(@, sec.now)]
                      ELSE sec.token_buckets
           outer == Pop(me.stack)
       IN  sec' = [sec EXCEPT !.token_buckets = buckets,
                              !.lock = NoThread,
                              !.threads[th] =
                                  IF outer = <<>>
                                  THEN [me EXCEPT !.pc = "idle",
                                                  !.stack = <<>>,
                                                  !.results = {<<key, status>>},
                                                  !.returned = TRUE]
                                  ELSE [me EXCEPT !.pc = "loop",
                                                  !.stack = outer,
                                                  !.keys = Tail(@),
                                                  !.results = @ \cup {<<key, status>>}]]
    /\ UNCHANGED notSec

(***************************************************************************)
(* security/security_middleware.py: SecurityMiddleware.process_request.    *)
(* The arguments of a request are known by the size of their text and by   *)
(* whether the sanitizer finds fault with them; what the authentication    *)
(* handler answers is the environment's choice.                            *)
(***************************************************************************)
MaxRequests == 3

\* SecurityConfig.max_request_size: int = 1024 * 1024
MaxRequestSize == 1048576

ArgumentSizes == {49, MaxRequestSize + 1}
HandlerAnswers == {"success", "failure", "expired", "raises"}

\* AuthMiddleware.authenticate_request: every answer but a success that has
\* not expired leaves as AuthenticationError.
authenticate_request(answer, user_id) ==
    IF answer = "success"
    THEN [raised |-> "", user_id |-> user_id]
    ELSE [raised |-> "AuthenticationError", user_id |-> ""]

\* The except clause of process_request when a refused request adds to the
\* violations of its kind only.
blocked_uncounted(metrics, e) ==
    IF e = "RateLimitError"
    THEN [metrics EXCEPT !.rate_limit_violations = @ + 1]
    ELSE IF e = "ValidationError"
    THEN [metrics EXCEPT !.sanitization_violations = @ + 1]
    ELSE [metrics EXCEPT !.auth_failures = @ + 1]

\* The except clause of process_request: requests_blocked and the counter
\* of the error's class.
blocked(metrics, e) ==
    LET m == [metrics EXCEPT !.requests_blocked = @ + 1]
    IN  IF e = "RateLimitError"
        THEN [m EXCEPT !.rate_limit_violations = @ + 1]
        ELSE IF e = "ValidationError"
        THEN [m EXCEPT !.sanitization_violations = @ + 1]
        ELSE IF e = "AuthenticationError"
        THEN [m EXCEPT !.auth_failures = @ + 1]
        ELSE m

\* process_request after the authentication has answered: the rate limits,
\* the size of the request, the sanitizer, and the counters.
process_request(middleware, metrics, buckets, config, refill_rate, authed, tool_name, ip_address, arguments, t) ==
    IF authed.raised # ""
    THEN [raised |-> authed.raised, buckets |-> buckets,
          metrics |-> blocked(metrics, authed.raised)]
    ELSE LET r == IF middleware.enable_rate_limiting
                  THEN RateLimiter_check_rate_limit(buckets, config, refill_rate,
                                                    authed.user_id, tool_name,
                                                    ip_address, 1, t)
                  ELSE [allowed |-> TRUE, info |-> NoInfo, buckets |-> buckets,
                        consumed |-> {}]
         IN  IF ~r.allowed
             THEN [raised |-> "RateLimitError", buckets |-> r.buckets,
                   metrics |-> blocked(metrics, "RateLimitError")]
             ELSE IF \/ middleware.enable_request_validation
                        /\ arguments.size > MaxRequestSize
                     \/ middleware.enable_input_sanitization /\ arguments.dangerous
             THEN [raised |-> "ValidationError", buckets |-> r.buckets,
                   metrics |-> blocked(metrics, "ValidationError")]
             ELSE [raised |-> "", buckets |-> r.buckets,
                   metrics |-> [metrics EXCEPT !.requests_processed = @ + 1]]

\* SecurityMiddleware.__init__ with a limiter of its own.
MiddlewareInit ==
    \E burst_size \in 1..MaxCapacity,
       enable_rate_limiting, enable_input_sanitization,
       enable_request_validation \in BOOLEAN :
        sec = [NoSec EXCEPT !.config = RateLimitConfig(SecondsPerMinute, burst_size,
                                                        TRUE, FALSE, FALSE, TRUE),
                            !.refill_rate = SecondsPerMinute,
                            !.middleware =
                                [enable_rate_limiting |-> enable_rate_limiting,
                                 enable_input_sanitization |-> enable_input_sanitization,
                                 enable_request_validation |-> enable_request_validation]]

\* process_request is called and waits for authenticate_request.
ProcessRequestBegin(slot, tool_name, arguments) ==
    /\ sec.requests[slot].pc \in {"none", "over"}
    /\ sec.calls < MaxRequests
    /\ sec' = [sec EXCEPT !.calls = @ + 1,
                          !.requests[slot] = [pc |-> "authenticating",
                                              tool_name |-> tool_name,
                                              arguments |-> arguments,
                                              out |-> ""]]
    /\ UNCHANGED notSec

\* The authentication answers and process_request runs to its end.
ProcessRequestResume(slot, answer, user_id) ==
    /\ sec.requests[slot].pc = "authenticating"
    /\ LET req == sec.requests[slot]
           p == process_request(sec.middleware, sec.security_metrics,
                                sec.token_buckets, sec.config, sec.refill_rate,
                                authenticate_request(answer, user_id),
                                req.tool_name, "a", req.arguments, sec.now)
       IN  sec' = [sec EXCEPT !.security_metrics = p.metrics,
                              !.token_buckets = p.buckets,
                              !.done = @ + 1,
                              !.requests[slot].pc = "over",
                              !.requests[slot].out = p.raised]
    /\ UNCHANGED notSec

\* reset_security_metrics()
ResetSecurityMetrics ==
    /\ sec.done > 0
    /\ sec' = [sec EXCEPT !.security_metrics = ZeroMetrics, !.done = 0]
    /\ UNCHANGED notSec

(***************************************************************************)
(* security/input_sanitizer.py: InputSanitizer and the depth of its input. *)
(* A value is given by its containers from the outside in: <<"dict",       *)
(* "list", "dict">> is {"k": [{"k": "leaf"}]}.  Every dict has one key and  *)
(* every list one item, and keys and leaf are harmless short strings.      *)
(***************************************************************************)
MaxNesting == 12

\* SanitizationConfig.max_json_depth: int = 10
DefaultMaxJsonDepth == 10

RECURSIVE sanitize_input(_, _)
RECURSIVE _sanitize_dict(_, _, _)

\* InputSanitizer._sanitize_array: each item goes to sanitize_input.
_sanitize_array(config, value) == sanitize_input(config, Tail(value))

\* InputSanitizer.sanitize_input(data): what it raises, "" for a return.
sanitize_input(config, data) ==
    IF data = <<>> THEN ""
    ELSE IF Head(data) = "list" THEN _sanitize_array(config, data)
    ELSE _sanitize_dict(config, data, 0)

\* InputSanitizer._sanitize_dict(value, path, depth)
_sanitize_dict(config, value, depth) ==
    IF depth > config.max_json_depth
    THEN "ValidationError"
    ELSE LET val == Tail(value)
         IN  IF val # <<>> /\ Head(val) = "dict"
             THEN _sanitize_dict(config, val, depth + 1)
             ELSE sanitize_input(config, val)

\* The objects of up to MaxNesting containers.
Nestings ==
    UNION {{s \in [1..n -> {"dict", "list"}] : s[1] = "dict"} : n \in 1..MaxNesting}

\* InputSanitizer(SanitizationConfig(max_json_depth=...))
SanitizerInit ==
    \E max_json_depth \in {1, 2, DefaultMaxJsonDepth} :
        sec = [NoSec EXCEPT !.sanitizer.max_json_depth = max_json_depth]

\* sanitizer.sanitize_input(data), once.
SanitizeInput(data) ==
    /\ ~sec.sanitizer.called
    /\ sec' = [sec EXCEPT !.sanitizer.called = TRUE,
                          !.sanitizer.data = data,
                          !.sanitizer.raised = sanitize_input(sec.sanitizer, data)]
    /\ UNCHANGED notSec

(***************************************************************************)
(* auth/jwt_auth.py: JWTAuthHandler.                                       *)
(* A text produced by an encoder is written as the encoder applied to its  *)
(* input: json.dumps(v) is [json |-> v], base64 of d is [b64 |-> d], the   *)
(* HMAC of a message under a key is [hmac |-> <<key, message>>].  A token  *)
(* is the sequence of its segments, the parts between the dots.            *)
(***************************************************************************)
MaxClock == 3
MaxLeeway == 1
MaxExpiresIn == 1

json_dumps(v) == [json |-> v]
json_loads(s) == s.json

\* JWTAuthHandler._base64_encode / _base64_decode
_base64_encode(data) == [b64 |-> data]
_base64_decode(s) == s.b64

\* JWTAuthHandler._create_signature
_create_signature(secret_key, message) ==
    _base64_encode([hmac |-> <<secret_key, message>>])

\* JWTAuthHandler._encode_jwt
_encode_jwt(secret_key, payload) ==
    LET header == [typ |-> "JWT", alg |-> "HS256"]
        header_encoded == _base64_encode(json_dumps(header))
        payload_encoded == _base64_encode(json_dumps(payload))
        message == <<header_encoded, payload_encoded>>
    IN  <<header_encoded, payload_encoded, _create_signature(secret_key, message)>>

JwtPayload(payload) == [ok |-> TRUE, payload |-> payload, error |-> ""]
JwtError(error) == [ok |-> FALSE, payload |-> <<>>, error |-> error]

\* The time checks of _decode_jwt when the leeway is left out.
verify_times_no_leeway(handler, payload, t) ==
    IF handler.verify_exp /\ "exp" \in DOMAIN payload /\ t > payload.exp
    THEN JwtError("JWT token has expired")
    ELSE IF handler.verify_iat /\ "iat" \in DOMAIN payload /\ t < payload.iat
    THEN JwtError("JWT token used before issued")
    ELSE JwtPayload(payload)

\* _decode_jwt: "Verify time-based claims" at time t.
verify_times(handler, payload, t) ==
    IF handler.verify_exp /\ "exp" \in DOMAIN payload
       /\ t > payload.exp + handler.leeway
    THEN JwtError("JWT token has expired")
    ELSE IF handler.verify_iat /\ "iat" \in DOMAIN payload
            /\ t < payload.iat - handler.leeway
    THEN JwtError("JWT token used before issued")
    ELSE JwtPayload(payload)

\* JWTAuthHandler._decode_jwt(token) at time t.
_decode_jwt(handler, token, t) ==
    IF Len(token) /= 3
    THEN JwtError("Invalid JWT format")
    ELSE LET message == <<token[1], token[2]>>
             expected_signature == _create_signature(handler.secret_key, message)
         IN  IF token[3] /= expected_signature
             THEN JwtError("Invalid JWT signature")
             ELSE verify_times(handler, json_loads(_base64_decode(token[2])), t)

\* JWTAuthHandler.__init__
JWTAuthHandler(secret_key, verify_exp, verify_iat, leeway) ==
    [secret_key |-> secret_key, verify_exp |-> verify_exp,
     verify_iat |-> verify_iat, leeway |-> leeway]

SecretKeys == {"secret", "other"}

\* The payloads of the tokens presented: sub and permissions, with or
\* without the claims iat and exp.
JwtPayloads ==
    LET base == [sub |-> "u1", permissions |-> <<"read">>]
        with_iat == {base} \cup {DictSet(base, "iat", i) : i \in 0..MaxClock}
    IN  with_iat \cup {DictSet(q, "exp", e) : q \in with_iat, e \in 0..MaxClock}

NoJwtCall == [op |-> "none", t |-> 0, ok |-> FALSE, payload |-> <<>>, error |-> ""]

\* dict.get(key, default)
DictGet(d, key, default) == IF key \in DOMAIN d THEN d[key] ELSE default

(***************************************************************************)
(* auth/base.py and auth/middleware.py: AuthContext, AuthResult and        *)
(* AuthMiddleware.authenticate_request over a JWTAuthHandler.  The         *)
(* credentials are the metadata value: whether it starts with "Bearer "    *)
(* and the token after the prefix.  expires_at is None (<<>>) or <<exp>>.  *)
(***************************************************************************)
JwtCredentials(bearer, token) == [present |-> TRUE, bearer |-> bearer, token |-> token]

AuthContext(user_id, permissions, expires_at) ==
    [user_id |-> user_id, permissions |-> permissions, expires_at |-> expires_at]
NoContext == AuthContext("", <<>>, <<>>)

\* AuthContext.is_expired() at time t.
is_expired(context, t) ==
    IF context.expires_at = <<>> THEN FALSE ELSE t > context.expires_at[1]

AuthResult(success, context, error_message, error_code) ==
    [success |-> success, context |-> context, error_message |-> error_message,
     error_code |-> error_code]

\* JWTAuthHandler.authenticate(context) at time t.
JWTAuthHandler_authenticate(handler, credentials, t) ==
    IF ~credentials.present \/ (~credentials.bearer /\ credentials.token = <<>>)
    THEN AuthResult(FALSE, NoContext, "Missing JWT token", "AUTH_MISSING_JWT")
    ELSE LET r == _decode_jwt(handler, credentials.token, t) IN
         IF ~r.ok
         THEN AuthResult(FALSE, NoContext, "Invalid JWT token: " \o r.error,
                         "AUTH_INVALID_JWT")
         ELSE LET payload == r.payload
                  sub == DictGet(payload, "sub", "")
                  user_id == IF sub /= "" THEN sub ELSE DictGet(payload, "user_id", "")
                  permissions == DictGet(payload, "permissions", <<"basic">>)
                  expires_at == IF "exp" \in DOMAIN payload THEN <<payload.exp>> ELSE <<>>
              IN  AuthResult(TRUE, AuthContext(user_id, permissions, expires_at), "", "")

\* AuthMiddleware.authenticate_request(context) at time t: the AuthContext
\* returned, or the AuthenticationError raised.
AuthMiddleware_authenticate_request(handler, credentials, t) ==
    LET result == JWTAuthHandler_authenticate(handler, credentials, t) IN
    IF ~result.success
    THEN [returned |-> FALSE, context |-> NoContext,
          error |-> IF result.error_message /= "" THEN result.error_message
                    ELSE "Authentication failed"]
    ELSE IF is_expired(result.context, t)
    THEN [returned |-> FALSE, context |-> NoContext,
          error |-> "Authentication token expired"]
    ELSE [returned |-> TRUE, context |-> result.context, error |-> ""]

NoMiddlewareCall ==
    [op |-> "none", t |-> 0, returned |-> FALSE, context |-> NoContext, error |-> ""]

(***************************************************************************)
(* auth/token_auth.py: TokenAuthHandler.                                   *)
(* A string is the sequence of its pieces; "Bearer " is one piece, so that *)
(* startswith("Bearer ") looks at the first piece and [7:] drops it.       *)
(***************************************************************************)
\* extract_credentials: the metadata value, or None.
Credentials(text) == [present |-> TRUE, text |-> text]
NoCredentials == [present |-> FALSE, text |-> <<>>]

\* AuthResult.success_result / AuthResult.failure_result
success_result(user_id, permissions) ==
    [success |-> TRUE, user_id |-> user_id, permissions |-> permissions,
     error_message |-> "", error_code |-> ""]
failure_result(error_message, error_code) ==
    [success |-> FALSE, user_id |-> <<>>, permissions |-> <<>>,
     error_message |-> error_message, error_code |-> error_code]

\* f"user_{hashlib.md5(token.encode()).hexdigest()[:8]}"
DefaultUserId(token) == <<"user_", [md5 |-> token]>>

\* not credentials: None or the empty string.
Falsy(credentials) == ~credentials.present \/ credentials.text = <<>>

\* TokenAuthHandler.authenticate when the prefix is left on the token.
TokenAuthHandler_authenticate_keep_prefix(handler, credentials) ==
    IF Falsy(credentials)
    THEN failure_result("Missing authentication token", "AUTH_MISSING_TOKEN")
    ELSE LET token == credentials.text
         IN  IF token \notin handler.valid_tokens
             THEN failure_result("Invalid authentication token", "AUTH_INVALID_TOKEN")
             ELSE success_result(DictGet(handler.user_map, token, DefaultUserId(token)),
                                 DictGet(handler.permissions_map, token, <<"basic">>))

\* TokenAuthHandler.authenticate
TokenAuthHandler_authenticate(handler, credentials) ==
    IF Falsy(credentials)
    THEN failure_result("Missing authentication token", "AUTH_MISSING_TOKEN")
    ELSE LET token == IF Head(credentials.text) = "Bearer "
                      THEN Tail(credentials.text)
                      ELSE credentials.text
         IN  IF token \notin handler.valid_tokens
             THEN failure_result("Invalid authentication token", "AUTH_INVALID_TOKEN")
             ELSE success_result(DictGet(handler.user_map, token, DefaultUserId(token)),
                                 DictGet(handler.permissions_map, token, <<"basic">>))

\* TokenAuthHandler.__init__
TokenAuthHandler(valid_tokens, permissions_map, user_map) ==
    [valid_tokens |-> valid_tokens, permissions_map |-> permissions_map,
     user_map |-> user_map]

\* TokenAuthHandler.add_token
add_token(handler, token, user_id, permissions) ==
    [handler EXCEPT
        !.valid_tokens = @ \cup {token},
        !.user_map = IF user_id /= <<>> THEN DictSet(@, token, user_id) ELSE @,
        !.permissions_map = IF permissions /= <<>> THEN DictSet(@, token, permissions) ELSE @]

\* TokenAuthHandler.remove_token
remove_token(handler, token) ==
    [handler EXCEPT
        !.valid_tokens = @ \ {token},
        !.user_map = DictDel(@, token),
        !.permissions_map = DictDel(@, token)]

\* The tokens and the credentials tried.
BearerTokens == {<<"a">>, <<"b">>, <<"Bearer ", "a">>}
PresentedCredentials ==
    {NoCredentials, Credentials(<<>>), Credentials(<<"Bearer ">>)}
    \cup {Credentials(k) : k \in BearerTokens}
    \cup {Credentials(<<"Bearer ">> \o k) : k \in BearerTokens}

NoAuthCall == [op |-> "none", credentials |-> NoCredentials,
               result |-> failure_result("", "")]

(***************************************************************************)
(* auth/middleware.py: AuthInterceptor; security/security_middleware.py:   *)
(* SecurityInterceptor.  A method name is the sequence of its pieces, the  *)
(* last being the name of the call.  A method handler is known by the      *)
(* attributes it has and by whether they can be assigned: grpc's own       *)
(* handler is a named tuple with all four attributes, which rejects        *)
(* assignment; a plain object has the attribute of its kind only.          *)
(***************************************************************************)
Method(name) == <<"/mcp.MCPService/", name>>
Methods == {Method(n) : n \in {"HealthCheck", "Initialize", "ListTools",
                               "ExecuteTool", "StreamTool"}}

\* The kind of handler the servicer has for a method.
KindOf(method_name) ==
    IF method_name[Len(method_name)] = "StreamTool" THEN "unary_stream" ELSE "unary_unary"

HandlerAttributes == {"unary_unary", "unary_stream", "stream_unary", "stream_stream"}

RpcMethodHandler(kind, attributes, assignable) ==
    [kind |-> kind, attributes |-> attributes, assignable |-> assignable]

\* The handlers continuation(handler_call_details) may return for a method.
HandlersOf(method_name) ==
    {RpcMethodHandler(KindOf(method_name), HandlerAttributes, FALSE),
     RpcMethodHandler(KindOf(method_name), {KindOf(method_name)}, TRUE)}

\* The test for skipping when every method is skipped.
SkipsChecks_every_method(method_name) == TRUE

\* method_name.endswith('HealthCheck') or method_name.endswith('Initialize')
SkipsChecks(method_name) ==
    method_name[Len(method_name)] \in {"HealthCheck", "Initialize"}

\* intercept_service: which attribute of the handler now holds the wrapper
\* ("" for none), or that the assignment raised.
WrapHandler(handler) ==
    LET attribute == IF "unary_unary" \in handler.attributes THEN "unary_unary"
                     ELSE IF "unary_stream" \in handler.attributes THEN "unary_stream"
                     ELSE ""
    IN  IF attribute = "" THEN [raised |-> FALSE, wrapped |-> ""]
        ELSE IF handler.assignable THEN [raised |-> FALSE, wrapped |-> attribute]
        ELSE [raised |-> TRUE, wrapped |-> ""]

\* SecurityConfig: what process_request does after authenticating.
SecurityConfigs ==
    [enable_rate_limiting : BOOLEAN,
     enable_request_validation : BOOLEAN,
     enable_input_sanitization : BOOLEAN]

NoSecurityConfig ==
    [enable_rate_limiting |-> FALSE,
     enable_request_validation |-> FALSE,
     enable_input_sanitization |-> FALSE]

\* One intercepted call: where it is (pc), what has happened to it (trace)
\* and the status it was aborted with.
NoIntercept ==
    [interceptor |-> "",
     config |-> NoSecurityConfig,
     method |-> <<>>,
     handler |-> RpcMethodHandler("", {}, FALSE),
     wrapped |-> "",
     pc |-> "idle",
     trace |-> <<>>,
     status |-> ""]

Event(step, ok) == [step |-> step, ok |-> ok]

\* Nothing of the auth package is in use.
NoAuth ==
    [now |-> 0,
     handler |-> JWTAuthHandler("", FALSE, FALSE, 0),
     token |-> <<>>,
     signed_with |-> "",
     original |-> <<>>,
     out |-> NoJwtCall,
     tokens |-> TokenAuthHandler({}, <<>>, <<>>),
     recent |-> <<>>,
     tok_out |-> NoAuthCall,
     call |-> NoIntercept,
     mw |-> NoMiddlewareCall]

AuthIdle == auth = NoAuth

JwtInit ==
    \E verify_exp, verify_iat \in BOOLEAN, leeway \in 0..MaxLeeway :
        auth = [NoAuth EXCEPT !.handler = JWTAuthHandler("secret", verify_exp, verify_iat, leeway)]

\* JWTAuthHandler.generate_token(user_id, permissions, expires_in)
GenerateToken(user_id, permissions, expires_in) ==
    /\ LET payload == [sub |-> user_id, permissions |-> permissions,
                       iat |-> auth.now, exp |-> auth.now + expires_in]
       IN  auth' = [auth EXCEPT !.token = _encode_jwt(auth.handler.secret_key, payload),
                                !.signed_with = auth.handler.secret_key,
                                !.original = payload,
                                !.out = NoJwtCall,
                            !.mw = NoMiddlewareCall]
    /\ UNCHANGED notAuth

\* What is kept with the token: the key and the payload it was made from; a
\* new token has no answer yet.
\* A token made from a payload by _encode_jwt under some key: the handler's
\* own or another.
PresentToken(secret_key, payload) ==
    /\ auth' = [auth EXCEPT !.token = _encode_jwt(secret_key, payload),
                            !.signed_with = secret_key,
                            !.original = payload,
                            !.out = NoJwtCall,
                            !.mw = NoMiddlewareCall]
    /\ UNCHANGED notAuth

\* The last segment of the token is cut off.
TruncateToken ==
    /\ Len(auth.token) = 3
    /\ auth' = [auth EXCEPT !.token = SubSeq(@, 1, 2), !.out = NoJwtCall,
                            !.mw = NoMiddlewareCall]
    /\ UNCHANGED notAuth

\* AuthMiddleware(handler).authenticate_request(context), the context
\* carrying the token with or without the "Bearer " prefix.
AuthenticateRequest(bearer) ==
    /\ auth.token /= <<>>
    /\ auth.mw.op = "none"
    /\ LET r == AuthMiddleware_authenticate_request(auth.handler,
                     JwtCredentials(bearer, auth.token), auth.now)
       IN  auth' = [auth EXCEPT !.mw = [op |-> "authenticate_request", t |-> auth.now,
                                        returned |-> r.returned, context |-> r.context,
                                        error |-> r.error]]
    /\ UNCHANGED notAuth

\* handler._decode_jwt(token)
DecodeJwt ==
    /\ auth.token /= <<>>
    /\ LET r == _decode_jwt(auth.handler, auth.token, auth.now)
       IN  auth' = [auth EXCEPT !.out = [op |-> "decode", t |-> auth.now, ok |-> r.ok,
                                         payload |-> r.payload, error |-> r.error]]
    /\ UNCHANGED notAuth

\* A TokenAuthHandler as constructed; recent keeps the latest of add_token
\* and remove_token for each token they were called with.
TokenAuthInit ==
    \E valid_tokens \in SUBSET BearerTokens,
       user_map \in {<<>>, [k \in {<<"a">>} |-> <<"alice">>]},
       permissions_map \in {<<>>, [k \in {<<"a">>} |-> <<"read">>]} :
        auth = [NoAuth EXCEPT !.tokens = TokenAuthHandler(valid_tokens, permissions_map, user_map)]

\* handler.add_token(token, user_id, permissions)
AddToken(token, user_id, permissions) ==
    /\ auth' = [auth EXCEPT !.tokens = add_token(@, token, user_id, permissions),
                            !.recent = DictSet(@, token, "add"),
                            !.tok_out = NoAuthCall]
    /\ UNCHANGED notAuth

\* handler.remove_token(token)
RemoveToken(token) ==
    /\ auth' = [auth EXCEPT !.tokens = remove_token(@, token),
                            !.recent = DictSet(@, token, "remove"),
                            !.tok_out = NoAuthCall]
    /\ UNCHANGED notAuth

\* handler.authenticate(context), the context carrying the credentials.
TokenAuthenticate(credentials) ==
    /\ auth' = [auth EXCEPT !.tok_out =
                    [op |-> "authenticate", credentials |-> credentials,
                     result |-> TokenAuthHandler_authenticate(auth.tokens, credentials)]]
    /\ UNCHANGED notAuth

\* intercept_service(continuation, handler_call_details) of the AuthInterceptor
\* ("auth") or of the SecurityInterceptor ("security").
InterceptService(interceptor, config, method_name, handler) ==
    /\ auth.call.pc = "idle"
    /\ LET w == WrapHandler(handler)
           start == [NoIntercept EXCEPT !.interceptor = interceptor,
                                        !.config = config,
                                        !.method = method_name,
                                        !.handler = handler]
       IN  auth' = [auth EXCEPT !.call =
               IF SkipsChecks(method_name)
               THEN [start EXCEPT !.pc = "dispatch"]
               ELSE IF w.raised
               THEN [start EXCEPT !.pc = "done", !.status = "AttributeError"]
               ELSE [start EXCEPT !.pc = "dispatch", !.wrapped = w.wrapped]]
    /\ UNCHANGED notAuth

\* The server calls the handler's method of its kind: the wrapper when that
\* attribute was wrapped, the servicer's method otherwise.
Dispatch ==
    /\ auth.call.pc = "dispatch"
    /\ auth' = [auth EXCEPT !.call =
           IF auth.call.wrapped = auth.call.handler.kind
           THEN [@ EXCEPT !.pc = "authenticate"]
           ELSE [@ EXCEPT !.pc = "done", !.trace = Append(@, Event("handler", TRUE))]]
    /\ UNCHANGED notAuth

\* wrapper: authenticate_request(context), which raises AuthenticationError
\* whenever the handler's answer is no success, expired, or an exception.
WrapperAuthenticate(ok) ==
    /\ auth.call.pc = "authenticate"
    /\ auth' = [auth EXCEPT !.call =
           [@ EXCEPT !.trace = Append(@, Event("authenticate", ok)),
                     !.pc = IF ~ok THEN "done"
                            ELSE IF auth.call.interceptor = "security" THEN "rate_limit"
                            ELSE "handler",
                     !.status = IF ok THEN "" ELSE "UNAUTHENTICATED"]]
    /\ UNCHANGED notAuth

\* process_request: 2. check rate limits, when there is a rate limiter.
WrapperRateLimit(ok) ==
    /\ auth.call.pc = "rate_limit"
    /\ auth' = [auth EXCEPT !.call =
           IF ~auth.call.config.enable_rate_limiting
           THEN [@ EXCEPT !.pc = "validate"]
           ELSE [@ EXCEPT !.trace = Append(@, Event("rate_limit", ok)),
                          !.pc = IF ok THEN "validate" ELSE "done",
                          !.status = IF ok THEN "" ELSE "RESOURCE_EXHAUSTED"]]
    /\ UNCHANGED notAuth

\* process_request: 3. validate request size, when enabled.
WrapperValidateSize(ok) ==
    /\ auth.call.pc = "validate"
    /\ auth' = [auth EXCEPT !.call =
           IF ~auth.call.config.enable_request_validation
           THEN [@ EXCEPT !.pc = "sanitize"]
           ELSE [@ EXCEPT !.trace = Append(@, Event("validate", ok)),
                          !.pc = IF ok THEN "sanitize" ELSE "done",
                          !.status = IF ok THEN "" ELSE "INVALID_ARGUMENT"]]
    /\ UNCHANGED notAuth

\* process_request: 4. sanitize input, when there is a sanitizer.
WrapperSanitize(ok) ==
    /\ auth.call.pc = "sanitize"
    /\ auth' = [auth EXCEPT !.call =
           IF ~auth.call.config.enable_input_sanitization
           THEN [@ EXCEPT !.pc = "handler"]
           ELSE [@ EXCEPT !.trace = Append(@, Event("sanitize", ok)),
                          !.pc = IF ok THEN "handler" ELSE "done",
                          !.status = IF ok THEN "" ELSE "INVALID_ARGUMENT"]]
    /\ UNCHANGED notAuth

\* wrapper: return await original_handler(request, context).  Awaiting the
\* async generator of a streaming method raises TypeError.
WrapperCallHandler ==
    /\ auth.call.pc = "handler"
    /\ auth' = [auth EXCEPT !.call =
           [@ EXCEPT !.trace = Append(@, Event("handler", TRUE)),
                     !.pc = "done",
                     !.status = IF auth.call.handler.kind = "unary_stream"
                                THEN "INTERNAL" ELSE ""]]
    /\ UNCHANGED notAuth

\* The call is over; the next one may come.
CallOver ==
    /\ auth.call.pc = "done"
    /\ auth' = [auth EXCEPT !.call = NoIntercept]
    /\ UNCHANGED notAuth

\* time.time() moves on by one second.
AuthTick ==
    /\ auth.now < MaxClock
    /\ auth' = [auth EXCEPT !.now = @ + 1]
    /\ UNCHANGED notAuth

(***************************************************************************)
(* a2a_extensions.py: the A2AAgentRegistry.  A health score and a cpu      *)
(* usage are kept in tenths and a score in fifteen-hundredths, so that the *)
(* arithmetic of score_agent is exact.                                     *)
(***************************************************************************)
MaxA2aClock == 3
MaxRegistryOps == 3

Tenths == 10
\* recency_score: `/ 300  # 5 min decay`
DecaySeconds == 300
\* The clock of the registry moves in steps of half the decay.
ClockStep == DecaySeconds \div 2

Max(a, b) == IF a >= b THEN a ELSE b

\* AgentCapability: its name and its requirements.
AgentCapability(name, requirements) == [name |-> name, requirements |-> requirements]

\* AgentInfo made at time t: health_score 1.0, no load metrics, last_seen now.
AgentInfo(agent_id, capabilities, status, t) ==
    [agent_id |-> agent_id, capabilities |-> capabilities, status |-> status,
     health_score |-> Tenths, load_metrics |-> <<>>, last_seen |-> t]

\* A2AAgentRegistry.__init__
A2AAgentRegistry == [agents |-> <<>>, capabilities |-> <<>>]

\* register_agent: the loop that indexes the capabilities, from the i-th on.
RECURSIVE IndexCapabilities(_, _, _, _)
IndexCapabilities(index, capabilities, agent_id, i) ==
    IF i > Len(capabilities) THEN index
    ELSE LET name == capabilities[i].name
         IN  IndexCapabilities(
                 DictSet(index, name, Append(DictGet(index, name, <<>>), agent_id)),
                 capabilities, agent_id, i + 1)

\* register_agent
register_agent(reg, agent_info) ==
    [agents |-> DictSet(reg.agents, agent_info.agent_id, agent_info),
     capabilities |-> IndexCapabilities(reg.capabilities, agent_info.capabilities,
                                        agent_info.agent_id, 1)]

\* list.remove: the first occurrence is taken out.
ListRemove(s, x) ==
    LET i == CHOOSE k \in 1..Len(s) : s[k] = x /\ \A j \in 1..(k - 1) : s[j] /= x
    IN  SubSeq(s, 1, i - 1) \o SubSeq(s, i + 1, Len(s))

\* unregister_agent: the loop that prunes the index, from the i-th capability on.
RECURSIVE PruneCapabilities(_, _, _, _)
PruneCapabilities(index, capabilities, agent_id, i) ==
    IF i > Len(capabilities) THEN index
    ELSE LET name == capabilities[i].name
             removed == IF name \in DOMAIN index /\ agent_id \in Range(index[name])
                        THEN DictSet(index, name, ListRemove(index[name], agent_id))
                        ELSE index
             pruned == IF name \in DOMAIN removed /\ removed[name] = <<>>
                       THEN DictDel(removed, name)
                       ELSE removed
         IN  PruneCapabilities(pruned, capabilities, agent_id, i + 1)

\* unregister_agent
unregister_agent(reg, agent_id) ==
    IF agent_id \in DOMAIN reg.agents
    THEN [agents |-> DictDel(reg.agents, agent_id),
          capabilities |-> PruneCapabilities(reg.capabilities,
                                             reg.agents[agent_id].capabilities,
                                             agent_id, 1)]
    ELSE reg

\* update_agent_health at time t
update_agent_health(reg, agent_id, health_score, load_metrics, t) ==
    IF agent_id \in DOMAIN reg.agents
    THEN [reg EXCEPT !.agents[agent_id].health_score = health_score,
                     !.agents[agent_id].load_metrics = load_metrics,
                     !.agents[agent_id].last_seen = t]
    ELSE reg

\* find_agents_by_capability: the ids of the agents it returns, in order.
find_agents_by_capability(reg, capability_name) ==
    SelectSeq(DictGet(reg.capabilities, capability_name, <<>>),
              LAMBDA agent_id : agent_id \in DOMAIN reg.agents)

\* find_best_agent: the first capability of the agent with this name has
\* every requirement.
FirstCapabilityHas(agent, capability_name, requirements) ==
    \E i \in 1..Len(agent.capabilities) :
        /\ agent.capabilities[i].name = capability_name
        /\ \A j \in 1..(i - 1) : agent.capabilities[j].name /= capability_name
        /\ requirements \subseteq agent.capabilities[i].requirements

\* score_agent at time t, in fifteen-hundredths:
\* health_score * 0.4 + load_score * 0.4 + recency_score * 0.2.
score_agent(agent, t) ==
    IF agent.status /= "active" THEN 0
    ELSE (4 * (DecaySeconds \div 2) * agent.health_score) \div Tenths
         + (4 * (DecaySeconds \div 2) * (Tenths - DictGet(agent.load_metrics, "cpu_usage", 0))) \div Tenths
         + Max(0, DecaySeconds - (t - agent.last_seen))

NoAgent == "None"

\* find_best_agent at time t: the id of the agent it returns, or None.
find_best_agent(reg, capability_name, requirements, t) ==
    LET found == find_agents_by_capability(reg, capability_name)
        candidates == IF requirements /= {}
                      THEN SelectSeq(found, LAMBDA agent_id :
                               FirstCapabilityHas(reg.agents[agent_id],
                                                  capability_name, requirements))
                      ELSE found
        score(i) == score_agent(reg.agents[candidates[i]], t)
        \* max(candidates, key=score_agent): the first of the greatest
        best == CHOOSE i \in 1..Len(candidates) :
                    /\ \A j \in 1..Len(candidates) : score(j) <= score(i)
                    /\ \A j \in 1..(i - 1) : score(j) < score(i)
    IN  IF found = <<>> THEN NoAgent
        ELSE IF candidates = <<>> THEN NoAgent
        ELSE IF score(best) > 0 THEN candidates[best]
        ELSE NoAgent

AgentIds == {"a1", "a2"}
CapabilityNames == {"X", "Y"}
Statuses == {"active", "busy"}
CapabilityLists ==
    {<<AgentCapability("X", {})>>, <<AgentCapability("X", {"gpu"})>>,
     <<AgentCapability("Y", {})>>}
HealthScores == {0, Tenths \div 2, Tenths}
LoadMetrics == {<<>>, [cpu_usage |-> Tenths \div 2], [cpu_usage |-> Tenths]}

NoLookup == [op |-> "none", capability_name |-> "", requirements |-> {},
             result |-> NoAgent, t |-> 0]

\* No workflow step is having its arguments prepared.
NoPrep == [op |-> "none", step |-> [arguments |-> <<>>, depends_on |-> <<>>],
           completed_steps |-> <<>>, arguments |-> <<>>]

\* No capability is being executed: no agents, nothing in sys.modules.
NoExec == [op |-> "none", agents |-> <<>>, modules |-> <<>>,
           agent_id |-> "", capability_name |-> "", arguments |-> <<>>,
           out |-> [kind |-> "none"]]

\* The execute_workflow calls one orchestrator can have under way at once,
\* and A2AWorkflowOrchestrator.__init__: no workflow is tracked and no call
\* has been made.
Executions == {"e1", "e2"}
NoExecution == [pc |-> "none", workflow_id |-> "", steps |-> <<>>, start_time |-> 0,
                success |-> FALSE]
A2AWorkflowOrchestrator ==
    [_active_workflows |-> <<>>,
     executions |-> [e \in Executions |-> NoExecution],
     calls |-> 0]

\* What an executor of the orchestrator hands back to execute_workflow: the
\* keys of completed_steps and, when it raised, the exception's text.
Ran(success, steps, error) ==
    [ran |-> TRUE, success |-> success, steps |-> steps, error |-> error]
NotRun == [ran |-> FALSE, success |-> FALSE, steps |-> {}, error |-> "none"]

\* No workflow is being executed in both modes.
NoModes == [step_map |-> <<>>, outcomes |-> <<>>, order |-> <<>>,
            sequential |-> NotRun, parallel |-> NotRun]

NoA2a == [now |-> 0, registry |-> A2AAgentRegistry, ops |-> 0, last |-> NoLookup,
          prep |-> NoPrep, exec |-> NoExec, orchestrator |-> A2AWorkflowOrchestrator,
          modes |-> NoModes]
A2aIdle == a2a = NoA2a

RegisterAgent(agent_id, capabilities, status) ==
    /\ a2a.ops < MaxRegistryOps
    /\ a2a' = [a2a EXCEPT !.registry = register_agent(
                              @, AgentInfo(agent_id, capabilities, status, a2a.now)),
                          !.ops = @ + 1,
                          !.last = NoLookup]
    /\ UNCHANGED notA2a

UnregisterAgent(agent_id) ==
    /\ a2a.ops < MaxRegistryOps
    /\ a2a' = [a2a EXCEPT !.registry = unregister_agent(@, agent_id),
                          !.ops = @ + 1,
                          !.last = NoLookup]
    /\ UNCHANGED notA2a

UpdateAgentHealth(agent_id, health_score, load_metrics) ==
    /\ a2a.ops < MaxRegistryOps
    /\ a2a' = [a2a EXCEPT !.registry = update_agent_health(
                              @, agent_id, health_score, load_metrics, a2a.now),
                          !.ops = @ + 1,
                          !.last = NoLookup]
    /\ UNCHANGED notA2a

FindBestAgent(capability_name, requirements) ==
    /\ a2a' = [a2a EXCEPT !.last = [op |-> "find_best_agent",
                                    capability_name |-> capability_name,
                                    requirements |-> requirements,
                                    result |-> find_best_agent(a2a.registry,
                                                   capability_name, requirements,
                                                   a2a.now),
                                    t |-> a2a.now]]
    /\ UNCHANGED notA2a

\* time.time() moves on.
A2aTick ==
    /\ a2a.now < MaxA2aClock * ClockStep
    /\ a2a' = [a2a EXCEPT !.now = @ + ClockStep, !.last = NoLookup]
    /\ UNCHANGED notA2a

(***************************************************************************)
(* a2a_extensions.py: execute_workflow calls that overlap on one           *)
(* orchestrator.  What the steps do is told apart only by whether the      *)
(* executor of the mode returns or raises.                                 *)
(***************************************************************************)
MaxExecutions == 3

\* execute_workflow, lines 610-627: the workflow is entered in the table
\* and the call waits for the executor of its mode.
TrackWorkflow(e, workflow_id, steps) ==
    /\ a2a.orchestrator.executions[e].pc \in {"none", "returned"}
    /\ a2a.orchestrator.calls < MaxExecutions
    /\ a2a' = [a2a EXCEPT
                  !.orchestrator.calls = @ + 1,
                  !.orchestrator.executions[e] =
                      [pc |-> "running", workflow_id |-> workflow_id, steps |-> steps,
                       start_time |-> a2a.now, success |-> FALSE],
                  !.orchestrator._active_workflows =
                      DictSet(@, workflow_id,
                              [steps |-> steps, start_time |-> a2a.now,
                               status |-> "running"])]
    /\ UNCHANGED notA2a

\* execute_workflow, lines 629-653: the executor returned or raised, the
\* WorkflowResult is made and the finally clause removes the id if it is
\* in the table.
UntrackWorkflow(e, success) ==
    /\ a2a.orchestrator.executions[e].pc = "running"
    /\ LET workflow_id == a2a.orchestrator.executions[e].workflow_id
       IN  a2a' = [a2a EXCEPT
                      !.orchestrator.executions[e].pc = "returned",
                      !.orchestrator.executions[e].success = success,
                      !.orchestrator._active_workflows =
                          IF workflow_id \in DOMAIN @ THEN DictDel(@, workflow_id) ELSE @]
    /\ UNCHANGED notA2a

(***************************************************************************)
(* Tools, arguments and results.                                           *)
(***************************************************************************)
\* RateLimiter.check_rate_limit: window: int = 60.
Window == 60

\* Tool.rate_limit: Optional[int]; None is written NoLimit.
NoLimit == 0 - 1

Names == {"t", "u"}

\* How a Tool came to be: declared with @mcp_tool, declared with
\* @streaming_tool, or constructed directly with its own execute (and stream).
Kinds == {"mcp_tool", "streaming_tool", "raw", "raw_streaming"}

NoTool == [name |-> "", rate_limit |-> NoLimit, kind |-> "none"]

\* Tool.supports_streaming
supports_streaming(tool) == tool.kind \in {"streaming_tool", "raw_streaming"}

\* The schema the decorators derive from a function  def f(x: str, y: int = 0).
SchemaOrder == <<"x", "y">>
Schema == [x |-> [type |-> "string", required |-> TRUE],
           y |-> [type |-> "number", required |-> FALSE]]

\* Arguments of a call: a map from some of these names to a value, of which
\* the model keeps the Python type.
ArgOrder == <<"x", "y", "z">>
ArgNames == {ArgOrder[i] : i \in 1..Len(ArgOrder)}
ValueTypes == {"string", "number"}
Arguments ==
    {a \in UNION {[D -> ValueTypes] : D \in SUBSET ArgNames} :
        /\ "y" \in DOMAIN a => a["y"] = "number"
        /\ "z" \in DOMAIN a => a["z"] = "string"}

\* Content items of an MCPToolResult (add_text, add_json, add_binary, add_error).
TextItem(text) == [type |-> "text", text |-> text]
JsonItem(data) == [type |-> "json", data |-> data]
BinaryItem(data, mime_type) == [type |-> "binary", data |-> data, mime_type |-> mime_type]
ErrorItem(code, message) == [type |-> "error", code |-> code, message |-> message]

\* What the function of a tool does when it is called: it raises
\* ValueError("boom"), or it returns an MCPToolResult.
BodyRaises == [raises |-> TRUE, content |-> <<>>, metadata |-> <<>>]
BodyReturns(content, metadata) ==
    [raises |-> FALSE, content |-> content, metadata |-> metadata]
BodyDone == BodyReturns(<<TextItem("done")>>, <<>>)

\* str(e) of an exception: "boom" for the body's ValueError; the text of any
\* other exception is written as the name of its class.
Message(exc) == IF exc = "ValueError" THEN "boom" ELSE exc

\* The outcome of a call: it returns a result or raises.
ReturnsResult(content, metadata, body_ran) ==
    [kind |-> "return", exc |-> "none", code |-> "none", field |-> "none",
     message |-> "none", content |-> content, metadata |-> metadata,
     body_ran |-> body_ran]
Returns(content, body_ran) == ReturnsResult(content, <<>>, body_ran)
Raises(exc, code, field, body_ran) ==
    [kind |-> "raise", exc |-> exc, code |-> code, field |-> field,
     message |-> Message(exc), content |-> <<>>, metadata |-> <<>>,
     body_ran |-> body_ran]

(***************************************************************************)
(* validate_parameters (utils/validation.py)                               *)
(***************************************************************************)
\* The first element of a sequence that satisfies Test, or "none".
FirstThat(seq, Test(_)) ==
    LET hits == {i \in 1..Len(seq) : Test(seq[i])} IN
    IF hits = {} THEN "none"
    ELSE seq[CHOOSE i \in hits : \A j \in hits : i <= j]

\* _validate_parameter_value: the value has the type the schema names.
_validate_parameter_value(value, param_info) == value = param_info.type

\* "ok", or the ValidationError raised with its field.
validate_parameters(parameters, schema) ==
    LET missing == FirstThat(SchemaOrder,
                     LAMBDA n : n \in DOMAIN schema /\ schema[n].required
                                /\ n \notin DOMAIN parameters)
        bad == FirstThat(ArgOrder,
                     LAMBDA n : n \in DOMAIN parameters
                                /\ (\/ n \notin DOMAIN schema
                                    \/ ~_validate_parameter_value(parameters[n],
                                                                  schema[n])))
    IN  IF missing # "none" THEN [ok |-> FALSE, field |-> missing]
        ELSE IF bad # "none" THEN [ok |-> FALSE, field |-> bad]
        ELSE [ok |-> TRUE, field |-> "none"]

(***************************************************************************)
(* The execute callables of a Tool (core/decorators.py).  body is what the *)
(* wrapped function does when it is called.                                *)
(***************************************************************************)
\* mcp_tool.async_wrapper
async_wrapper(arguments, body) ==
    LET v == validate_parameters(arguments, Schema) IN
    IF ~v.ok THEN Raises("ValidationError", "VALIDATION_ERROR", v.field, FALSE)
    ELSE IF body.raises
         THEN Returns(<<ErrorItem("TOOL_EXECUTION_ERROR", Message("ValueError"))>>, TRUE)
         ELSE ReturnsResult(body.content, body.metadata, TRUE)

\* streaming_tool.execute_wrapper
execute_wrapper(arguments, body) ==
    Returns(<<TextItem("This is a streaming tool. Use StreamTool RPC for streaming results.")>>,
            FALSE)

\* Tool.execute of a tool of the given kind.
tool_execute(tool, arguments, body) ==
    IF tool.kind = "mcp_tool" THEN async_wrapper(arguments, body)
    ELSE IF tool.kind = "streaming_tool" THEN execute_wrapper(arguments, body)
    ELSE IF body.raises THEN Raises("ValueError", "none", "none", TRUE)
    ELSE ReturnsResult(body.content, body.metadata, TRUE)

(***************************************************************************)
(* RateLimiter.check_rate_limit                                            *)
(***************************************************************************)
check_rate_limit(reqs, tool_name, limit, current_time) ==
    LET cleaned == SelectSeq(reqs[tool_name],
                             LAMBDA req_time : current_time - req_time < Window)
    IN  IF Len(cleaned) >= limit
        THEN [allowed |-> FALSE, requests |-> [reqs EXCEPT ![tool_name] = cleaned]]
        ELSE [allowed |-> TRUE,
              requests |-> [reqs EXCEPT ![tool_name] = Append(cleaned, current_time)]]

\* `if tool.rate_limit:` of execute_tool and stream_tool: None and 0 are falsy.
HasRateLimit(tool) == tool.rate_limit # NoLimit /\ tool.rate_limit # 0

\* The rate limit step of execute_tool and stream_tool.
RateCheck(reqs, tool, current_time) ==
    IF HasRateLimit(tool)
    THEN check_rate_limit(reqs, tool.name, tool.rate_limit, current_time)
    ELSE [allowed |-> TRUE, requests |-> reqs]

(***************************************************************************)
(* ToolRegistry.execute_tool                                               *)
(***************************************************************************)
\* The except clause of execute_tool: it reads the local `result`, which was
\* never bound because tool.execute raised, so UnboundLocalError is raised in
\* place of the tool's exception.
execute_tool_except(raised) ==
    Raises("UnboundLocalError", "none", "none", raised.body_ran)

\* [out |-> the outcome, requests |-> the limiter's state afterwards,
\*  admitted |-> the call passed the rate limit, execute_raised |-> tool.execute raised]
execute_tool(tls, reqs, current_time, tool_name, arguments, body) ==
    IF tool_name \notin DOMAIN tls
    THEN [out |-> Raises("ToolNotFoundError", "TOOL_NOT_FOUND", "none", FALSE),
          requests |-> reqs, admitted |-> FALSE, execute_raised |-> FALSE]
    ELSE LET tool == tls[tool_name]
             rl == RateCheck(reqs, tool, current_time)
             res == tool_execute(tool, arguments, body)
         IN  IF ~rl.allowed
             THEN [out |-> Raises("RateLimitError", "RATE_LIMIT_EXCEEDED", "none", FALSE),
                   requests |-> rl.requests, admitted |-> FALSE,
                   execute_raised |-> FALSE]
             ELSE [out |-> IF res.kind = "raise" THEN execute_tool_except(res) ELSE res,
                   requests |-> rl.requests, admitted |-> TRUE,
                   execute_raised |-> res.kind = "raise"]

(***************************************************************************)
(* The registry's state and operations.                                    *)
(***************************************************************************)
NoCall == [op |-> "none", name |-> "", tool |-> NoTool, args |-> <<>>,
           out |-> Returns(<<>>, FALSE), admitted |-> FALSE,
           execute_raised |-> FALSE]

NoStream == [st |-> "none", tool |-> NoTool, produced |-> <<>>, received |-> <<>>,
             producer_raised |-> FALSE, validation_failed |-> FALSE,
             propagated |-> "none"]

\* ToolRegistry.__init__ and RateLimiter.__init__
RegIdle ==
    /\ tools = <<>>
    /\ requests = [n \in Names |-> <<>>]
    /\ now = 0
    /\ last = NoCall
    /\ stream = NoStream
    /\ reg_hist = [admitted |-> <<>>]


\* register as it would be without its check for a name already present.
Register_overwrite(tool) ==
    /\ UNCHANGED <<notRegRpc, rpcVars>>
    /\ last' = [NoCall EXCEPT !.op = "register", !.name = tool.name, !.tool = tool]
    /\ tools' = DictSet(tools, tool.name, tool)
    /\ UNCHANGED <<requests, now, stream, reg_hist>>

\* ToolRegistry.register
Register(tool) ==
    /\ UNCHANGED <<notRegRpc, rpcVars>>
    /\ IF tool.name \in DOMAIN tools
       THEN /\ last' = [NoCall EXCEPT !.op = "register", !.name = tool.name,
                                      !.tool = tool,
                                      !.out = Raises("ValueError", "none", "none", FALSE)]
            /\ UNCHANGED tools
       ELSE /\ last' = [NoCall EXCEPT !.op = "register", !.name = tool.name,
                                      !.tool = tool]
            /\ tools' = DictSet(tools, tool.name, tool)
    /\ UNCHANGED <<requests, now, stream, reg_hist>>

\* ToolRegistry.unregister
Unregister(tool_name) ==
    /\ UNCHANGED <<notRegRpc, rpcVars>>
    /\ tools' = IF tool_name \in DOMAIN tools THEN DictDel(tools, tool_name) ELSE tools
    /\ last' = [NoCall EXCEPT !.op = "unregister", !.name = tool_name]
    /\ UNCHANGED <<requests, now, stream, reg_hist>>

\* ToolRegistry.clear
Clear ==
    /\ UNCHANGED <<notRegRpc, rpcVars>>
    /\ tools' = <<>>
    /\ last' = [NoCall EXCEPT !.op = "clear"]
    /\ UNCHANGED <<requests, now, stream, reg_hist>>

\* The calls a history keeps.
MaxCalls == 3

\* The history keeps the admitted calls of tools that declare a numeric limit.
Admit(hist, tool, t) ==
    IF tool.rate_limit = NoLimit THEN hist
    ELSE [hist EXCEPT !.admitted = Append(@, [tool |-> tool, t |-> t])]

\* ToolRegistry.execute_tool, awaited to its end: what it does to the registry.
ExecuteToolCall(tool_name, arguments, body) ==
    /\ UNCHANGED notRegRpc
    /\ Len(reg_hist.admitted) < MaxCalls
    /\ LET r == execute_tool(tools, requests, now, tool_name, arguments, body)
           tool == IF tool_name \in DOMAIN tools THEN tools[tool_name] ELSE NoTool
       IN  /\ requests' = r.requests
           /\ last' = [op |-> "execute", name |-> tool_name, tool |-> tool,
                       args |-> arguments, out |-> r.out, admitted |-> r.admitted,
                       execute_raised |-> r.execute_raised]
           /\ reg_hist' = IF r.admitted THEN Admit(reg_hist, tool, now) ELSE reg_hist
    /\ UNCHANGED <<tools, now, stream>>

\* execute_tool called directly by the host program.
ExecuteTool(tool_name, arguments, body) ==
    /\ ExecuteToolCall(tool_name, arguments, body)
    /\ UNCHANGED rpcVars

(***************************************************************************)
(* ToolRegistry.stream_tool.  The tool's generator produces events: it     *)
(* yields an update, raises, or ends.  Each layer (the decorator's         *)
(* stream_wrapper, then stream_tool) maps the event it gets from below to  *)
(* the event it hands on.                                                  *)
(***************************************************************************)
MaxUpdates == 2

UpdateValues == {"a", "b"}
Update(v) == [type |-> "update", v |-> v]
\* MCPToolResult().add_error("TOOL_STREAMING_ERROR", str(e))
StreamError == [type |-> "error", v |-> "TOOL_STREAMING_ERROR"]

YieldEv(item) == [ev |-> "yield", item |-> item]
\* The layer yields item as its final update and ends at the next pull.
LastEv(item) == [ev |-> "last", item |-> item]
RaiseEv == [ev |-> "raise", item |-> StreamError]
EndEv == [ev |-> "end", item |-> StreamError]
ProducerEvents == {YieldEv(Update(v)) : v \in UpdateValues} \cup {RaiseEv, EndEv}

\* streaming_tool.stream_wrapper: its try/except around the generator; a tool
\* constructed directly hands its own generator to the registry.
stream_wrapper(tool, ev) ==
    IF tool.kind = "streaming_tool" /\ ev.ev = "raise" THEN LastEv(StreamError) ELSE ev

\* stream_tool_layer as it would be without its except clause.
stream_tool_passes_raise(ev) == ev

\* ToolRegistry.stream_tool: its try/except around `async for update in tool.stream`.
stream_tool_layer(ev) ==
    IF ev.ev = "raise" THEN LastEv(StreamError) ELSE ev

\* What the consumer of stream_tool sees of an event.
Consume(s, ev) ==
    IF ev.ev = "yield" THEN [s EXCEPT !.received = Append(@, ev.item)]
    ELSE IF ev.ev = "last" THEN [s EXCEPT !.received = Append(@, ev.item),
                                          !.st = "erroring"]
    ELSE IF ev.ev = "end" THEN [s EXCEPT !.st = "ended"]
    ELSE [s EXCEPT !.st = "raised", !.propagated = "Exception"]

\* The first pull of stream_tool up to the call of the tool's function: lookup,
\* streaming support, rate limit, and the wrapper's parameter validation.
StreamToolOpen(tool_name, arguments) ==
    /\ UNCHANGED <<notRegRpc, rpcVars>>
    /\ stream.st # "open" /\ stream.st # "erroring"
    /\ Len(reg_hist.admitted) < MaxCalls
    /\ LET tool == IF tool_name \in DOMAIN tools THEN tools[tool_name] ELSE NoTool
           rl == RateCheck(requests, tool, now)
           v == IF tool.kind = "streaming_tool"
                THEN validate_parameters(arguments, Schema)
                ELSE [ok |-> TRUE, field |-> "none"]
           call == [NoCall EXCEPT !.op = "stream", !.name = tool_name, !.tool = tool,
                                  !.args = arguments]
       IN  IF tool_name \notin DOMAIN tools
           THEN /\ last' = [call EXCEPT !.out =
                              Raises("ToolNotFoundError", "TOOL_NOT_FOUND", "none", FALSE)]
                /\ stream' = [NoStream EXCEPT !.st = "raised",
                                              !.propagated = "ToolNotFoundError"]
                /\ UNCHANGED <<requests, reg_hist>>
           ELSE IF ~supports_streaming(tool)
           THEN /\ last' = [call EXCEPT !.out =
                              Raises("ValidationError", "VALIDATION_ERROR", "none", FALSE)]
                /\ stream' = [NoStream EXCEPT !.st = "raised", !.tool = tool,
                                              !.propagated = "ValidationError"]
                /\ UNCHANGED <<requests, reg_hist>>
           ELSE IF ~rl.allowed
           THEN /\ last' = [call EXCEPT !.out =
                              Raises("RateLimitError", "RATE_LIMIT_EXCEEDED", "none", FALSE)]
                /\ stream' = [NoStream EXCEPT !.st = "raised", !.tool = tool,
                                              !.propagated = "RateLimitError"]
                /\ requests' = rl.requests
                /\ UNCHANGED reg_hist
           ELSE /\ last' = [call EXCEPT !.admitted = TRUE]
                /\ requests' = rl.requests
                /\ reg_hist' = Admit(reg_hist, tool, now)
                /\ stream' =
                     IF v.ok THEN [NoStream EXCEPT !.st = "open", !.tool = tool]
                     ELSE Consume([NoStream EXCEPT !.st = "open", !.tool = tool,
                                                   !.validation_failed = TRUE],
                                  stream_tool_layer(RaiseEv))
    /\ UNCHANGED <<tools, now>>

\* One more pull: the tool's generator yields, raises or ends.
StreamToolNext(ev) ==
    /\ UNCHANGED <<notRegRpc, rpcVars>>
    /\ stream.st = "open"
    /\ ev.ev = "yield" => Len(stream.produced) < MaxUpdates
    /\ stream' = Consume([stream EXCEPT
                             !.produced = IF ev.ev = "yield" THEN Append(@, ev.item) ELSE @,
                             !.producer_raised = (ev.ev = "raise")],
                         stream_tool_layer(stream_wrapper(stream.tool, ev)))
    /\ last' = [NoCall EXCEPT !.op = "stream_next", !.name = stream.tool.name]
    /\ UNCHANGED <<tools, requests, now, reg_hist>>

\* The pull after a final error update: the generator ends.
StreamToolFinish ==
    /\ UNCHANGED <<notRegRpc, rpcVars>>
    /\ stream.st = "erroring"
    /\ stream' = [stream EXCEPT !.st = "ended"]
    /\ last' = [NoCall EXCEPT !.op = "stream_end", !.name = stream.tool.name]
    /\ UNCHANGED <<tools, requests, now, reg_hist>>

(***************************************************************************)
(* The values of a structured content item and of the wire's Struct.       *)
(* A Python number is written hi * 2^53 + lo; an int and a float of the    *)
(* same value are equal in Python and are one value here.                  *)
(***************************************************************************)
PyStr(s) == [py |-> "str", s |-> s, hi |-> 0, lo |-> 0]
PyNum(hi, lo) == [py |-> "number", s |-> "", hi |-> hi, lo |-> lo]
PyBool(b) == [py |-> "bool", s |-> b, hi |-> 0, lo |-> 0]
PyNone == [py |-> "NoneType", s |-> "", hi |-> 0, lo |-> 0]

\* google.protobuf.Value: a oneof of null, number (a double), string, bool.
Value(kind, s, hi, lo) == [kind |-> kind, s |-> s, hi |-> hi, lo |-> lo]

\* The double nearest to hi * 2^53 + lo, for a number below 2^54: every integer
\* below 2^53 is a double; from 2^53 on doubles are 2 apart and a tie goes to
\* the even mantissa.
to_double(hi, lo) ==
    IF hi = 0 \/ lo % 2 = 0 THEN [hi |-> hi, lo |-> lo]
    ELSE IF ((lo - 1) \div 2) % 2 = 0 THEN [hi |-> hi, lo |-> lo - 1]
    ELSE [hi |-> hi, lo |-> lo + 1]

\* ParseDict on one value of a dict (number_value is a double field).
ParseValue(v) ==
    IF v.py = "NoneType" THEN Value("null_value", "", 0, 0)
    ELSE IF v.py = "bool" THEN Value("bool_value", v.s, 0, 0)
    ELSE IF v.py = "str" THEN Value("string_value", v.s, 0, 0)
    ELSE LET d == to_double(v.hi, v.lo) IN Value("number_value", "", d.hi, d.lo)

\* ParseDict(d, struct): Struct.fields, a map from key to Value.
ParseDict(d) == [k \in DOMAIN d |-> ParseValue(d[k])]

\* MessageToDict on one Value.
ValueToPy(v) ==
    IF v.kind = "null_value" THEN PyNone
    ELSE IF v.kind = "bool_value" THEN PyBool(v.s)
    ELSE IF v.kind = "string_value" THEN PyStr(v.s)
    ELSE PyNum(v.hi, v.lo)

\* MessageToDict(struct)
MessageToDict(struct) == [k \in DOMAIN struct |-> ValueToPy(struct[k])]

\* MCPServicer._dict_to_struct: an empty dict is not parsed.
EmptyStruct == [k \in {} |-> Value("null_value", "", 0, 0)]
_dict_to_struct(d) == IF DOMAIN d # {} THEN ParseDict(d) ELSE EmptyStruct

\* MCPServicer._struct_to_dict
_struct_to_dict(struct) == MessageToDict(struct)

\* Arguments on the wire: the model keeps the type of each value, and a
\* string travels as string_value, a number as number_value.
ArgsToStruct(arguments) ==
    [n \in DOMAIN arguments |->
        IF arguments[n] = "string" THEN "string_value" ELSE "number_value"]
ArgsFromStruct(struct) ==
    [n \in DOMAIN struct |->
        IF struct[n] = "string_value" THEN "string" ELSE "number"]

(***************************************************************************)
(* Wire messages, as the server builds them and the client reads them.     *)
(***************************************************************************)
\* mcp_pb2.Content: a oneof of text, json and binary; `which` is the field set.
PbContent(which, text, json, binary) ==
    [which |-> which, text |-> [text |-> text], json |-> [data |-> json],
     binary |-> binary]
NoBinary == [data |-> "", mime_type |-> ""]
PbText(text) == PbContent("text", text, EmptyStruct, NoBinary)
PbJson(struct) == PbContent("json", "", struct, NoBinary)
PbBinary(data, mime_type) ==
    PbContent("binary", "", EmptyStruct, [data |-> data, mime_type |-> mime_type])
HasField(msg, f) == msg.which = f

\* A map<string, string> field: its entries.
PbMap(d) == {[key |-> k, value |-> d[k]] : k \in DOMAIN d}
\* Iterating a map field into a dict (set_metadata for each item).
DictOfMap(m) == [k \in {e.key : e \in m} |-> (CHOOSE e \in m : e.key = k).value]

\* mcp_pb2.ToolResult(content=..., metadata=...)
PbToolResult(content, metadata) == [content |-> content, metadata |-> PbMap(metadata)]

\* MCPServicer._convert_result_to_pb without its branch for binary items.
RECURSIVE pb_contents_no_binary(_, _)
pb_contents_no_binary(content, i) ==
    IF i > Len(content) THEN <<>>
    ELSE (IF content[i].type = "text" THEN <<PbText(content[i].text)>>
          ELSE IF content[i].type = "json"
               THEN <<PbJson(_dict_to_struct(content[i].data))>>
          ELSE <<>>) \o pb_contents_no_binary(content, i + 1)

\* The loop of MCPServicer._convert_result_to_pb: items that are neither text
\* nor json nor binary add nothing.
RECURSIVE pb_contents(_, _)
pb_contents(content, i) ==
    IF i > Len(content) THEN <<>>
    ELSE (IF content[i].type = "text" THEN <<PbText(content[i].text)>>
          ELSE IF content[i].type = "json"
               THEN <<PbJson(_dict_to_struct(content[i].data))>>
          ELSE IF content[i].type = "binary"
               THEN <<PbBinary(content[i].data, content[i].mime_type)>>
          ELSE <<>>) \o pb_contents(content, i + 1)

\* MCPServicer._convert_result_to_pb
_convert_result_to_pb(result) ==
    PbToolResult(pb_contents(result.content, 1), result.metadata)

\* The loop of MCPClient._convert_pb_to_result.
RECURSIVE result_contents(_, _)
result_contents(content, i) ==
    IF i > Len(content) THEN <<>>
    ELSE (IF HasField(content[i], "text") THEN <<TextItem(content[i].text.text)>>
          ELSE IF HasField(content[i], "json")
               THEN <<JsonItem(MessageToDict(content[i].json.data))>>
          ELSE IF HasField(content[i], "binary")
               THEN <<BinaryItem(content[i].binary.data, content[i].binary.mime_type)>>
          ELSE <<>>) \o result_contents(content, i + 1)

\* MCPClient._convert_pb_to_result
_convert_pb_to_result(pb_result) ==
    [content |-> result_contents(pb_result.content, 1),
     metadata |-> DictOfMap(pb_result.metadata)]

\* mcp_pb2.ExecuteToolResponse: a oneof of success and error.
NoToolError == [code |-> "", message |-> ""]
NoPbResult == PbToolResult(<<>>, <<>>)
ResponseSuccess(pb_result) ==
    [which |-> "success", success |-> pb_result, error |-> NoToolError]
ResponseError(code, message) ==
    [which |-> "error", success |-> NoPbResult,
     error |-> [code |-> code, message |-> message]]
NoResponse == [which |-> "none", success |-> NoPbResult, error |-> NoToolError]

\* The exceptions that are MCPError or one of its subclasses.
IsMCPError(exc) ==
    exc \in {"MCPError", "ToolNotFoundError", "RateLimitError", "ValidationError",
             "AuthenticationError"}

\* The try/except of MCPServicer.ExecuteTool around the registry's outcome.
ExecuteToolResponse(out) ==
    IF out.kind = "return" THEN ResponseSuccess(_convert_result_to_pb(out))
    ELSE IF IsMCPError(out.exc) THEN ResponseError(out.code, out.message)
    ELSE ResponseError("INTERNAL_ERROR", out.message)

\* What MCPClient.execute_tool hands to its caller.
ClientRaises(code, message) ==
    [kind |-> "raise", exc |-> "MCPError", code |-> code, message |-> message,
     content |-> <<>>, metadata |-> <<>>]
ClientReturns(result) ==
    [kind |-> "return", exc |-> "none", code |-> "none", message |-> "none",
     content |-> result.content, metadata |-> result.metadata]
NoOutcome ==
    [kind |-> "none", exc |-> "none", code |-> "none", message |-> "none",
     content |-> <<>>, metadata |-> <<>>]

\* The part of MCPClient.execute_tool after the response has arrived.
ClientOutcome(response) ==
    IF HasField(response, "error")
    THEN ClientRaises(response.error.code, response.error.message)
    ELSE ClientReturns(_convert_pb_to_result(response.success))

NoRequest == [tool_name |-> "", arguments |-> <<>>]

\* str.startswith, a str being the sequence of its characters.
startswith(s, prefix) ==
    Len(s) >= Len(prefix) /\ SubSeq(s, 1, Len(prefix)) = prefix

\* MCPServicer.__init__: the name, the version and the capability map.
MCPServicer(server_name, version, has_auth_handler) ==
    [server_name |-> server_name, version |-> version,
     capabilities |-> [tools |-> "true", streaming |-> "true",
                       auth |-> IF has_auth_handler THEN "true" ELSE "false",
                       rate_limiting |-> "true"]]

NoInitializeResponse ==
    [sent |-> FALSE, protocol_version |-> <<>>,
     server_info |-> [name |-> "", version |-> ""], capabilities |-> <<>>]
InitializeResponse(protocol_version, server_info, capabilities) ==
    [sent |-> TRUE, protocol_version |-> protocol_version,
     server_info |-> server_info, capabilities |-> capabilities]

\* MCPServicer.Initialize: the status of the call, whether a coroutine of
\* context.abort was left unawaited, and the response.  context.abort(...)
\* is called without await: on a grpc.aio context it makes a coroutine that
\* never runs and the method goes on; a context whose abort is a plain
\* method raises there (abort_raises).
MCPServicer_Initialize(servicer, protocol_version, abort_raises) ==
    IF ~startswith(protocol_version, <<"1", ".">>) /\ abort_raises
    THEN [status |-> "FAILED_PRECONDITION", unawaited |-> FALSE,
          response |-> NoInitializeResponse]
    ELSE [status |-> "OK",
          unawaited |-> ~startswith(protocol_version, <<"1", ".">>),
          response |-> InitializeResponse(<<"1", ".", "0">>,
                           [name |-> servicer.server_name, version |-> servicer.version],
                           servicer.capabilities)]

\* No Initialize call has been made.
NoHandshake ==
    [op |-> "none", servicer |-> MCPServicer("", "", FALSE), protocol_version |-> <<>>,
     abort_raises |-> FALSE,
     out |-> [status |-> "", unawaited |-> FALSE, response |-> NoInitializeResponse]]

\* The caller as authenticate_request finds it: its AuthContext's permissions,
\* or that authentication failed.
Caller(authenticated, permissions) ==
    [authenticated |-> authenticated, permissions |-> permissions]
\* The default NoAuthHandler: AuthContext(user_id="anonymous", permissions=["*"]).
AnonymousCaller == Caller(TRUE, {"*"})

\* tool.requires_auth and tool.metadata.get('required_permissions', []).
Policy(requires_auth, required_permissions) ==
    [requires_auth |-> requires_auth, required_permissions |-> required_permissions]
NoPolicy == Policy(FALSE, <<>>)
\* body and out are history: what the tool's function does when called in this
\* call, and the outcome of the registry's execute_tool on the server.
NoRpc == [st |-> "idle", request |-> NoRequest, body |-> BodyDone,
          out |-> Returns(<<>>, FALSE), response |-> NoResponse,
          outcome |-> NoOutcome,
          method |-> "", caller |-> AnonymousCaller, policy |-> NoPolicy,
          handshake |-> NoHandshake]

RpcIdle == rpc = NoRpc

\* MCPClient.execute_tool up to  await self.stub.ExecuteTool(request).
ClientExecuteTool(tool_name, arguments) ==
    /\ rpc.st = "idle"
    /\ rpc' = [NoRpc EXCEPT !.st = "sent",
                            !.request = [tool_name |-> tool_name,
                                         arguments |-> ArgsToStruct(arguments)]]
    /\ UNCHANGED <<notRegRpc, regVars>>

\* MCPServicer.ExecuteTool, with the default NoAuthHandler and a tool that
\* does not require auth; body is what the tool's function does if called.
ServerExecuteTool(body) ==
    /\ rpc.st = "sent"
    /\ ExecuteToolCall(rpc.request.tool_name, ArgsFromStruct(rpc.request.arguments),
                       body)
    /\ rpc' = [rpc EXCEPT !.st = "responded", !.body = body, !.out = last'.out,
                          !.response = ExecuteToolResponse(last'.out)]

\* MCPClient.execute_tool from the arrival of the response.
ClientReceive ==
    /\ rpc.st = "responded"
    /\ rpc' = [rpc EXCEPT !.st = "done", !.outcome = ClientOutcome(rpc.response)]
    /\ UNCHANGED <<notRegRpc, regVars>>

(***************************************************************************)
(* MCPServicer.ExecuteTool and StreamTool with an authenticator and tools  *)
(* that require auth.                                                      *)
(***************************************************************************)
\* AuthMiddleware.check_tool_permissions
check_tool_permissions(permissions, required_permissions) ==
    \/ required_permissions = <<>>
    \/ \A i \in 1..Len(required_permissions) : required_permissions[i] \in permissions

\* The first lines of ExecuteTool and of StreamTool: authenticate_request,
\* registry.get_tool, check_tool_permissions.  It raises, or lets the call on.
PermissionGate(tls, tool_name, policy, caller) ==
    IF ~caller.authenticated
    THEN [Raises("AuthenticationError", "AUTH_REQUIRED", "none", FALSE)
              EXCEPT !.message = "Authentication failed"]
    ELSE IF /\ tool_name \in DOMAIN tls
            /\ policy.requires_auth
            /\ ~check_tool_permissions(caller.permissions, policy.required_permissions)
    THEN [Raises("MCPError", "AUTH_REQUIRED", "none", FALSE)
              EXCEPT !.message = "Insufficient permissions for this tool"]
    ELSE Returns(<<>>, FALSE)

\* StreamTool: `except Exception as e` yields one frame with
\* code=ErrorCode.INTERNAL_ERROR, message=str(e).
StreamErrorFrame(message) == ResponseError("INTERNAL_ERROR", message)

\* A client calls ExecuteTool or StreamTool with its credentials.
ClientCallTool(method, caller, tool_name, arguments) ==
    /\ rpc.st = "idle"
    /\ rpc' = [rpc EXCEPT !.st = "sent",
                          !.method = method,
                          !.caller = caller,
                          !.request = [tool_name |-> tool_name,
                                       arguments |-> ArgsToStruct(arguments)]]
    /\ UNCHANGED <<notRegRpc, regVars>>

\* MCPServicer.ExecuteTool
GatedExecuteTool(body) ==
    /\ rpc.st = "sent"
    /\ rpc.method = "ExecuteTool"
    /\ LET g == PermissionGate(tools, rpc.request.tool_name, rpc.policy, rpc.caller)
       IN  IF g.kind = "raise"
           THEN /\ rpc' = [rpc EXCEPT !.st = "responded", !.body = body, !.out = g,
                                      !.response = ExecuteToolResponse(g)]
                /\ UNCHANGED <<notRegRpc, regVars>>
           ELSE /\ ExecuteToolCall(rpc.request.tool_name,
                                   ArgsFromStruct(rpc.request.arguments), body)
                /\ rpc' = [rpc EXCEPT !.st = "responded", !.body = body,
                                      !.out = last'.out,
                                      !.response = ExecuteToolResponse(last'.out)]

\* MCPServicer.StreamTool up to `async for update in self.registry.stream_tool`.
GatedStreamTool ==
    /\ rpc.st = "sent"
    /\ rpc.method = "StreamTool"
    /\ LET g == PermissionGate(tools, rpc.request.tool_name, rpc.policy, rpc.caller)
       IN  rpc' = IF g.kind = "raise"
                  THEN [rpc EXCEPT !.st = "responded", !.out = g,
                                   !.response = StreamErrorFrame(g.message)]
                  ELSE [rpc EXCEPT !.st = "streaming"]
    /\ UNCHANGED <<notRegRpc, regVars>>

\* MCPServicer.StreamTool: the registry's stream has ended or raised.
ServerStreamOver ==
    /\ rpc.st = "streaming"
    /\ stream.st \in {"ended", "raised"}
    /\ rpc' = [rpc EXCEPT !.st = "responded",
                          !.response = IF stream.st = "raised"
                                       THEN StreamErrorFrame(stream.propagated)
                                       ELSE NoResponse]
    /\ UNCHANGED <<notRegRpc, regVars>>

\* A client sends InitializeRequest and the servicer answers it.
Initialize(protocol_version, abort_raises) ==
    /\ rpc.handshake.op = "none"
    /\ rpc' = [rpc EXCEPT !.handshake.op = "Initialize",
                          !.handshake.protocol_version = protocol_version,
                          !.handshake.abort_raises = abort_raises,
                          !.handshake.out =
                              MCPServicer_Initialize(rpc.handshake.servicer,
                                                     protocol_version, abort_raises)]
    /\ UNCHANGED <<notRegRpc, regVars>>

(***************************************************************************)
(* core/registry.py: ToolRegistry.global_registry and ToolRegistry.register *)
(* called from several threads.  An instance is known by the number of the *)
(* construction that made it, None is 0; a tool is known by its name and   *)
(* by the thread that made it.                                             *)
(***************************************************************************)
MaxSharedCalls == 3

\* The threads that use the registry.
RegistryThreads == {"T1", "T2", "T3"}

None == 0

IdleCaller == [pc |-> "idle", tool |-> [name |-> "", by |-> ""], found |-> FALSE]

\* The class as the module leaves it: no instance, the lock free, and a
\* registry with no tool.
NoShared ==
    [_global_instance |-> None,
     _lock |-> NoThread,
     constructed |-> 0,
     handed |-> {},
     tools |-> <<>>,
     registrations |-> {},
     calls |-> 0,
     threads |-> [th \in RegistryThreads |-> IdleCaller]]

SharedIdle == shared = NoShared

\* global_registry when the test under the lock is left out.
StillNone_unchecked(instance) == TRUE

\* global_registry, line 99: `if cls._global_instance is None` with the lock.
StillNone(instance) == instance = None

\* A thread calls ToolRegistry.global_registry().
GlobalRegistryCall(th) ==
    /\ shared.threads[th].pc = "idle"
    /\ shared.calls < MaxSharedCalls
    /\ shared' = [shared EXCEPT !.calls = @ + 1,
                                !.threads[th] = [IdleCaller EXCEPT !.pc = "test"]]
    /\ UNCHANGED notShared

\* line 97: `if cls._global_instance is None`, without the lock.
GlobalRegistryTest(th) ==
    /\ shared.threads[th].pc = "test"
    /\ shared' = [shared EXCEPT !.threads[th].pc =
                                    IF shared._global_instance = None
                                    THEN "acquire" ELSE "return"]
    /\ UNCHANGED notShared

\* line 98: `with cls._lock:` entered.
GlobalRegistryAcquire(th) ==
    /\ shared.threads[th].pc = "acquire"
    /\ shared._lock = NoThread
    /\ shared' = [shared EXCEPT !._lock = th, !.threads[th].pc = "locked"]
    /\ UNCHANGED notShared

\* lines 99-100: the test again, cls() if it is still None, and the lock
\* released.
GlobalRegistryConstruct(th) ==
    /\ shared.threads[th].pc = "locked"
    /\ IF StillNone(shared._global_instance)
       THEN shared' = [shared EXCEPT !.constructed = @ + 1,
                                    !._global_instance = shared.constructed + 1,
                                    !._lock = NoThread,
                                    !.threads[th].pc = "return"]
       ELSE shared' = [shared EXCEPT !._lock = NoThread,
                                    !.threads[th].pc = "return",
                                    !.threads[th].found = TRUE]
    /\ UNCHANGED notShared

\* line 101: return cls._global_instance
GlobalRegistryReturn(th) ==
    /\ shared.threads[th].pc = "return"
    /\ shared' = [shared EXCEPT !.handed = @ \cup {shared._global_instance},
                                !.threads[th].pc = "idle"]
    /\ UNCHANGED notShared

\* A thread calls register(tool) on the registry.
RegisterCall(th, name) ==
    /\ shared.threads[th].pc = "idle"
    /\ shared.calls < MaxSharedCalls
    /\ shared' = [shared EXCEPT !.calls = @ + 1,
                                !.threads[th] =
                                    [IdleCaller EXCEPT !.pc = "register",
                                                       !.tool = [name |-> name, by |-> th]]]
    /\ UNCHANGED notShared

\* register, lines 105-106: `if tool.name in self.tools: raise ValueError`.
RegisterTest(th) ==
    /\ shared.threads[th].pc = "register"
    /\ LET tool == shared.threads[th].tool
       IN  IF tool.name \in DOMAIN shared.tools
           THEN shared' = [shared EXCEPT
                              !.threads[th].pc = "idle",
                              !.registrations = @ \cup {[tool |-> tool, ok |-> FALSE]}]
           ELSE shared' = [shared EXCEPT !.threads[th].pc = "store"]
    /\ UNCHANGED notShared

\* register, line 108: self.tools[tool.name] = tool
RegisterStore(th) ==
    /\ shared.threads[th].pc = "store"
    /\ LET tool == shared.threads[th].tool
       IN  shared' = [shared EXCEPT
                         !.tools = DictSet(@, tool.name, tool),
                         !.threads[th].pc = "idle",
                         !.registrations = @ \cup {[tool |-> tool, ok |-> TRUE]}]
    /\ UNCHANGED notShared

SharedSpecInit ==
    /\ SharedIdle
    /\ RegIdle
    /\ RpcIdle
    /\ WfIdle
    /\ A2aIdle
    /\ SecIdle
    /\ AuthIdle

\* Threads that ask for the global registry.
SingletonNext ==
    \/ \E th \in RegistryThreads : GlobalRegistryCall(th)
    \/ \E th \in RegistryThreads : GlobalRegistryTest(th)
    \/ \E th \in RegistryThreads : GlobalRegistryAcquire(th)
    \/ \E th \in RegistryThreads : GlobalRegistryConstruct(th)
    \/ \E th \in RegistryThreads : GlobalRegistryReturn(th)

SpecSingleton == SharedSpecInit /\ [][SingletonNext]_vars

\* Threads that register tools in one registry.
RegisteringNext ==
    \/ \E th \in RegistryThreads, name \in Names : RegisterCall(th, name)
    \/ \E th \in RegistryThreads : RegisterTest(th)
    \/ \E th \in RegistryThreads : RegisterStore(th)

SpecRegistering == SharedSpecInit /\ [][RegisteringNext]_vars

(***************************************************************************)
(* A client and a server: tools declared with @mcp_tool or constructed     *)
(* directly, called over the wire with results of every content kind.      *)
(***************************************************************************)
MaxItems == 2

\* 1, 2^53, 2^53 + 1 and 2^53 + 2.
Numbers == {PyNum(0, 1), PyNum(1, 0), PyNum(1, 1), PyNum(1, 2)}
EmptyDict == [k \in {} |-> PyNone]
JsonDicts ==
    {EmptyDict, [k \in {"k", "n"} |-> IF k = "k" THEN PyStr("v") ELSE PyNum(0, 1)]}
    \cup {[k \in {"k"} |-> v] : v \in {PyStr("v"), PyBool("True"), PyNone}}
    \cup {[k \in {"n"} |-> v] : v \in Numbers}
Items ==
    {TextItem(s) : s \in {"", "a"}}
    \cup {JsonItem(d) : d \in JsonDicts}
    \cup {BinaryItem("", "application/octet-stream"), BinaryItem("b", "image/png")}
Contents == UNION {[1..n -> Items] : n \in 0..MaxItems}
NoMetadata == [k \in {} |-> ""]
Metadatas == {NoMetadata, [k \in {"source"} |-> "test"]}
RpcBodies == {BodyRaises} \cup {BodyReturns(c, m) : c \in Contents, m \in Metadatas}
RpcTools == [name : {"t"}, rate_limit : {NoLimit}, kind : {"mcp_tool", "raw"}]
RpcArguments == {a \in Arguments : DOMAIN a \subseteq {"x"}}

\* The server starts to serve with its tools declared.
RpcInit ==
    /\ tools \in {<<>>} \cup {DictSet(<<>>, tool.name, tool) : tool \in RpcTools}
    /\ requests = [n \in Names |-> <<>>]
    /\ now = 0
    /\ last = NoCall
    /\ stream = NoStream
    /\ reg_hist = [admitted |-> <<>>]
    /\ RpcIdle
    /\ WfIdle
    /\ SharedIdle
    /\ A2aIdle
    /\ SecIdle
    /\ AuthIdle

RpcNext ==
    \/ \E a \in RpcArguments : ClientExecuteTool("t", a)
    \/ \E body \in RpcBodies : ServerExecuteTool(body)
    \/ ClientReceive

SpecRpc == RpcInit /\ [][RpcNext]_vars

(***************************************************************************)
(* A server whose tool may require auth and name permissions, called by    *)
(* callers with and without them.                                          *)
(***************************************************************************)
GatedTools == [name : {"t"}, rate_limit : {NoLimit}, kind : {"streaming_tool", "raw_streaming"}]
Policies ==
    {Policy(r, q) : r \in BOOLEAN, q \in {<<>>, <<"admin">>, <<"admin", "write">>}}
Callers ==
    {Caller(FALSE, {})}
    \cup {Caller(TRUE, s) : s \in {{"*"}, {"basic"}, {"admin"}, {"admin", "write"}}}

GatedInit ==
    /\ tools \in {<<>>} \cup {DictSet(<<>>, tool.name, tool) : tool \in GatedTools}
    /\ requests = [n \in Names |-> <<>>]
    /\ now = 0
    /\ last = NoCall
    /\ stream = NoStream
    /\ reg_hist = [admitted |-> <<>>]
    /\ \E policy \in Policies : rpc = [NoRpc EXCEPT !.policy = policy]
    /\ WfIdle
    /\ SharedIdle
    /\ A2aIdle
    /\ SecIdle
    /\ AuthIdle

GatedNext ==
    \/ \E method \in {"ExecuteTool", "StreamTool"}, caller \in Callers,
          a \in RpcArguments :
            ClientCallTool(method, caller, "t", a)
    \/ \E body \in {BodyRaises, BodyDone} : GatedExecuteTool(body)
    \/ GatedStreamTool
    \/ /\ rpc.st = "streaming"
       /\ stream.st = "none"
       /\ StreamToolOpen(rpc.request.tool_name, ArgsFromStruct(rpc.request.arguments))
    \/ /\ rpc.st = "streaming"
       /\ \E ev \in ProducerEvents : StreamToolNext(ev)
    \/ /\ rpc.st = "streaming"
       /\ StreamToolFinish
    \/ ServerStreamOver

SpecGated == GatedInit /\ [][GatedNext]_vars

(***************************************************************************)
(* A servicer and the Initialize handshakes of clients of many versions.   *)
(***************************************************************************)
ProtocolVersions ==
    {<<>>, <<"1">>, <<"1", ".">>, <<"1", ".", "0">>, <<"1", ".", "5">>,
     <<"2", ".", "0">>, <<"0", ".", "1">>, <<"1", "1", ".", "0">>, <<"v", "1", ".">>,
     <<"1", "0">>}

HandshakeInit ==
    /\ \E server_name \in {"gRPC-MCP-Server", "srv"}, version \in {"1.0.0", "2.1.0"},
          has_auth_handler \in BOOLEAN :
           rpc = [NoRpc EXCEPT !.handshake.servicer =
                                   MCPServicer(server_name, version, has_auth_handler)]
    /\ RegIdle
    /\ WfIdle
    /\ SharedIdle
    /\ A2aIdle
    /\ SecIdle
    /\ AuthIdle

HandshakeNext ==
    \E protocol_version \in ProtocolVersions, abort_raises \in BOOLEAN :
        Initialize(protocol_version, abort_raises)

SpecHandshake == HandshakeInit /\ [][HandshakeNext]_vars

(***************************************************************************)
(* The registry, used by a host program: tools of every kind, without rate *)
(* limits, registered under two names and executed.                        *)
(***************************************************************************)
PlainTools == [name : Names, rate_limit : {NoLimit}, kind : Kinds]

RegInit ==
    /\ RegIdle
    /\ RpcIdle
    /\ WfIdle
    /\ SharedIdle
    /\ A2aIdle
    /\ SecIdle
    /\ AuthIdle

RegNext ==
    \/ \E tool \in PlainTools : Register(tool)
    \/ \E n \in Names : Unregister(n)
    \/ Clear
    \/ \E n \in Names, a \in Arguments, body \in {BodyDone, BodyRaises} :
          ExecuteTool(n, a, body)

SpecRegistry == RegInit /\ [][RegNext]_vars

(***************************************************************************)
(* The registry with a streaming call in progress.                         *)
(***************************************************************************)
StreamTools == [name : {"t"}, rate_limit : {NoLimit}, kind : Kinds]

StreamNext ==
    \/ \E tool \in StreamTools : Register(tool)
    \/ Unregister("t")
    \/ \E n \in Names, a \in Arguments : StreamToolOpen(n, a)
    \/ \E ev \in ProducerEvents : StreamToolNext(ev)
    \/ StreamToolFinish

SpecStream == RegInit /\ [][StreamNext]_vars

(***************************************************************************)
(* The registry with rate-limited tools and a clock.                       *)
(***************************************************************************)
MaxLimit == 2
MaxWindows == 1

\* The clock readings of the model: around each multiple of the window.
TimePoints == {t \in {k * Window + d : k \in 0..MaxWindows, d \in {0 - 1, 0, 1}} : t >= 0}

LimitedTools == [name : {"t"}, rate_limit : {NoLimit} \cup (0..MaxLimit),
                 kind : {"raw_streaming"}]

\* Time passes.
Tick ==
    /\ UNCHANGED <<notRegRpc, rpcVars>>
    /\ \E t \in TimePoints : t > now /\ now' = t
    /\ last' = [NoCall EXCEPT !.op = "tick"]
    /\ UNCHANGED <<tools, requests, stream, reg_hist>>

RateNext ==
    \/ \E tool \in LimitedTools : Register(tool)
    \/ Unregister("t")
    \/ ExecuteTool("t", <<>>, BodyDone)
    \/ StreamToolOpen("t", <<>>)
    \/ StreamToolNext(EndEv)
    \/ Tick

SpecRateLimit == RegInit /\ [][RateNext]_vars

(***************************************************************************)
(* One TokenBucket, consumed from as time passes.                          *)
(***************************************************************************)
BucketSpecInit ==
    /\ RegIdle
    /\ RpcIdle
    /\ WfIdle
    /\ SharedIdle
    /\ A2aIdle
    /\ BucketInit
    /\ AuthIdle

BucketNext ==
    \/ \E tokens \in 0..MaxTokens : BucketConsume(tokens)
    \/ \E tokens \in 0..MaxTokens : BucketGetWaitTime(tokens)
    \/ SecTick

SpecBucket == BucketSpecInit /\ [][BucketNext]_vars

(***************************************************************************)
(* One RateLimiter, asked about calls as time passes.                      *)
(***************************************************************************)
LimiterSpecInit ==
    /\ RegIdle
    /\ RpcIdle
    /\ WfIdle
    /\ SharedIdle
    /\ A2aIdle
    /\ LimiterInit
    /\ AuthIdle

LimiterNext ==
    \/ \E user_id \in UserIds, tool_name \in ToolNames, ip_address \in IpAddresses,
          request_size \in 1..MaxTokens :
            CheckRateLimit(user_id, tool_name, ip_address, request_size)
    \/ SecTickTo(MaxWait)

SpecLimiter == LimiterSpecInit /\ [][LimiterNext]_vars

(***************************************************************************)
(* One AdaptiveRateLimiter, its load reported and its checks made by two   *)
(* threads as time passes.                                                 *)
(***************************************************************************)
AdaptiveSpecInit ==
    /\ AdaptiveInit
    /\ WfIdle
    /\ SharedIdle
    /\ A2aIdle
    /\ RegIdle
    /\ RpcIdle
    /\ AuthIdle

AdaptiveNext ==
    \/ \E cpu_usage, memory_usage \in Halves : UpdateServerLoad(cpu_usage, memory_usage)
    \/ \E th \in Threads, user_id \in {NoId, "u1"}, request_size \in 1..MaxTokens :
           AdaptiveCall(th, user_id, request_size)
    \/ \E th \in Threads : AdaptiveCompute(th)
    \/ \E th \in Threads : AdaptiveStore(th)
    \/ \E th \in Threads : AdaptiveSuper(th)
    \/ \E th \in Threads : AdaptiveRestore(th)
    \/ SecTickTo(MaxWait)

SpecAdaptive == AdaptiveSpecInit /\ [][AdaptiveNext]_vars

(***************************************************************************)
(* One RateLimiter checked and asked for its status by two threads.  A     *)
(* thread that can take a step takes it in the end, and a thread that      *)
(* finds the lock free again and again gets it in the end.                 *)
(***************************************************************************)
LimitsSpecInit ==
    /\ LimitsInit
    /\ WfIdle
    /\ SharedIdle
    /\ A2aIdle
    /\ RegIdle
    /\ RpcIdle
    /\ AuthIdle

LimitsNext ==
    \/ \E user_id \in {"u1", "u2"}, request_size \in 1..MaxTokens :
           CheckUnderLock(user_id, request_size)
    \/ \E th \in Threads, key \in {"user:u1", "user:u2"} : GetRateLimitStatusCall(th, key)
    \/ \E th \in Threads, from_metrics \in BOOLEAN : GetAllLimitsCall(th, from_metrics)
    \/ \E th \in Threads : LockAcquire(th)
    \/ \E th \in Threads : GetAllLimitsEnter(th)
    \/ \E th \in Threads : GetAllLimitsNext(th)
    \/ \E th \in Threads : GetRateLimitStatusBody(th)
    \/ SecTickTo(MaxWait)

LimitsFairness ==
    \A th \in Threads :
        /\ SF_vars(LockAcquire(th))
        /\ WF_vars(GetAllLimitsEnter(th))
        /\ WF_vars(GetAllLimitsNext(th))
        /\ WF_vars(GetRateLimitStatusBody(th))

SpecLimits == LimitsSpecInit /\ [][LimitsNext]_vars /\ LimitsFairness

(***************************************************************************)
(* One SecurityMiddleware and the requests that pass through it.           *)
(***************************************************************************)
MiddlewareSpecInit ==
    /\ MiddlewareInit
    /\ WfIdle
    /\ SharedIdle
    /\ A2aIdle
    /\ RegIdle
    /\ RpcIdle
    /\ AuthIdle

MiddlewareNext ==
    \/ \E slot \in RequestSlots, size \in ArgumentSizes, dangerous \in BOOLEAN :
           ProcessRequestBegin(slot, "t", [size |-> size, dangerous |-> dangerous])
    \/ \E slot \in RequestSlots, answer \in HandlerAnswers :
           ProcessRequestResume(slot, answer, "u1")
    \/ ResetSecurityMetrics

SpecMiddleware == MiddlewareSpecInit /\ [][MiddlewareNext]_vars

(***************************************************************************)
(* One InputSanitizer given nested objects.                                *)
(***************************************************************************)
SanitizerSpecInit ==
    /\ SanitizerInit
    /\ WfIdle
    /\ SharedIdle
    /\ A2aIdle
    /\ RegIdle
    /\ RpcIdle
    /\ AuthIdle

SanitizerNext == \E data \in Nestings : SanitizeInput(data)

SpecSanitizer == SanitizerSpecInit /\ [][SanitizerNext]_vars

(***************************************************************************)
(* One JWTAuthHandler, shown tokens as time passes.                        *)
(***************************************************************************)
JwtSpecInit ==
    /\ RegIdle
    /\ RpcIdle
    /\ WfIdle
    /\ SharedIdle
    /\ A2aIdle
    /\ SecIdle
    /\ JwtInit

JwtNext ==
    \/ \E expires_in \in 0..MaxExpiresIn : GenerateToken("u1", <<"read">>, expires_in)
    \/ \E k \in SecretKeys, payload \in JwtPayloads : PresentToken(k, payload)
    \/ TruncateToken
    \/ DecodeJwt
    \/ AuthTick

SpecJwt == JwtSpecInit /\ [][JwtNext]_vars

(***************************************************************************)
(* The AuthMiddleware over one JWTAuthHandler.                             *)
(***************************************************************************)
AuthMiddlewareNext ==
    \/ \E expires_in \in 0..MaxExpiresIn : GenerateToken("u1", <<"read">>, expires_in)
    \/ \E k \in SecretKeys, payload \in JwtPayloads : PresentToken(k, payload)
    \/ TruncateToken
    \/ \E bearer \in BOOLEAN : AuthenticateRequest(bearer)
    \/ AuthTick

SpecAuthMiddleware == JwtSpecInit /\ [][AuthMiddlewareNext]_vars

(***************************************************************************)
(* One TokenAuthHandler: tokens come and go, credentials are presented.    *)
(***************************************************************************)
TokenAuthSpecInit ==
    /\ RegIdle
    /\ RpcIdle
    /\ WfIdle
    /\ SharedIdle
    /\ A2aIdle
    /\ SecIdle
    /\ TokenAuthInit

TokenAuthNext ==
    \/ \E token \in BearerTokens, user_id \in {<<>>, <<"bob">>},
          permissions \in {<<>>, <<"write">>} :
            AddToken(token, user_id, permissions)
    \/ \E token \in BearerTokens : RemoveToken(token)
    \/ \E credentials \in PresentedCredentials : TokenAuthenticate(credentials)

SpecTokenAuth == TokenAuthSpecInit /\ [][TokenAuthNext]_vars

(***************************************************************************)
(* Calls passing through an AuthInterceptor or a SecurityInterceptor.      *)
(***************************************************************************)
InterceptInit ==
    /\ RegIdle
    /\ RpcIdle
    /\ WfIdle
    /\ SharedIdle
    /\ A2aIdle
    /\ SecIdle
    /\ AuthIdle

InterceptNext ==
    \/ \E method_name \in Methods : \E handler \in HandlersOf(method_name) :
          \/ InterceptService("auth", NoSecurityConfig, method_name, handler)
          \/ \E config \in SecurityConfigs :
                InterceptService("security", config, method_name, handler)
    \/ Dispatch
    \/ \E ok \in BOOLEAN : WrapperAuthenticate(ok)
    \/ \E ok \in BOOLEAN : WrapperRateLimit(ok)
    \/ \E ok \in BOOLEAN : WrapperValidateSize(ok)
    \/ \E ok \in BOOLEAN : WrapperSanitize(ok)
    \/ WrapperCallHandler
    \/ CallOver

SpecIntercept == InterceptInit /\ [][InterceptNext]_vars

(***************************************************************************)
(* A2AWorkflowOrchestrator._execute_workflow_step: the arguments of a step *)
(* before it is delegated.  A string is a sequence of pieces: [lit |-> s]  *)
(* is the text s, [json |-> d] the JSON text of d, [str |-> x] what str(x) *)
(* gives; a placeholder is the piece of its text.                          *)
(***************************************************************************)
\* An argument value that is a str, and one that is not.
Str(pieces) == [str |-> pieces]
NotStr(n) == [int |-> n]
\* isinstance(value, str)
IsStr(value) == DOMAIN value = {"str"}

\* f"{{{dep_id}}}"
Placeholder(dep_id) == [lit |-> "{" \o dep_id \o "}"]

\* str.replace(old, new): every occurrence.
str_replace(pieces, old, new) ==
    [i \in DOMAIN pieces |-> IF pieces[i] = old THEN new ELSE pieces[i]]

\* json.dumps of the data of a structured item; of an empty dict it is "{}".
Serialized(data) == IF data = <<>> THEN [lit |-> "{}"] ELSE [json |-> data]

\* The replacement chosen for the first content item.
Replacement(first_content) ==
    IF first_content.type = "text"
    THEN [lit |-> IF "text" \in DOMAIN first_content THEN first_content.text ELSE ""]
    ELSE IF first_content.type = "json"
    THEN [lit |-> IF "text" \in DOMAIN first_content THEN first_content.text ELSE "{}"]
    ELSE [str |-> first_content]

\* The loop over step.depends_on, from the i-th dependency on: each value is
\* read from step.arguments, each result is written to the copy.
RECURSIVE SubstituteFrom(_, _, _, _)
SubstituteFrom(arguments, step, completed, i) ==
    IF i > Len(step.depends_on) THEN arguments
    ELSE LET dep_id == step.depends_on[i]
             after ==
                 IF dep_id \in DOMAIN completed
                 THEN [key \in DOMAIN step.arguments |->
                          LET value == step.arguments[key]
                          IN  IF /\ IsStr(value)
                                 /\ Placeholder(dep_id) \in Range(value.str)
                                 /\ completed[dep_id].content /= <<>>
                              THEN Str(str_replace(value.str, Placeholder(dep_id),
                                           Replacement(completed[dep_id].content[1])))
                              ELSE arguments[key]]
                 ELSE arguments
         IN  SubstituteFrom(after, step, completed, i + 1)

\* _execute_workflow_step up to `# Execute with retry`: the arguments that
\* are delegated.
step_arguments(step, completed) == SubstituteFrom(step.arguments, step, completed, 1)

PrepDepIds == {"A", "B"}
DependsOns == {<<>>, <<"A">>, <<"A", "B">>, <<"B", "A">>}
DepContents ==
    {<<>>, <<TextItem("v")>>, <<JsonItem([k |-> 1])>>, <<JsonItem(<<>>)>>,
     <<BinaryItem("bytes", "application/octet-stream")>>,
     <<TextItem("v"), JsonItem([k |-> 1])>>}
DepResults == [content : DepContents]
ArgumentValues ==
    {NotStr(7), Str(<<[lit |-> "x"]>>), Str(<<Placeholder("A")>>),
     Str(<<[lit |-> "x"], Placeholder("A"), Placeholder("A")>>),
     Str(<<Placeholder("A"), [lit |-> "-"], Placeholder("B")>>)}

\* A step and the results completed so far.
PrepInit ==
    \E depends_on \in DependsOns, done \in SUBSET PrepDepIds, p \in ArgumentValues,
       q \in {NotStr(7), Str(<<Placeholder("B")>>)} :
        \E completed \in [done -> DepResults] :
            a2a = [NoA2a EXCEPT !.prep =
                      [NoPrep EXCEPT !.step = [arguments |-> [p |-> p, q |-> q],
                                               depends_on |-> depends_on],
                                     !.completed_steps = completed]]

PrepareArguments ==
    /\ a2a.prep.op = "none"
    /\ a2a' = [a2a EXCEPT !.prep.op = "prepared",
                          !.prep.arguments = step_arguments(a2a.prep.step,
                                                            a2a.prep.completed_steps)]
    /\ UNCHANGED notA2a

(***************************************************************************)
(* A2AAgentClient.execute_capability.  sys.modules maps a module name to   *)
(* its attributes; a function either raises or returns a value, which is   *)
(* an MCPToolResult, a str, a dict or something else with its str() text.  *)
(***************************************************************************)
FuncRaises == [raises |-> TRUE, returns |-> [py |-> "NoneType", s |-> "None"]]
FuncReturns(value) == [raises |-> FALSE, returns |-> value]
PyResult(content) == [py |-> "MCPToolResult", content |-> content, metadata |-> <<>>]
PyText(s) == [py |-> "str", s |-> s]
PyDict(d) == [py |-> "dict", d |-> d]
PyOther(s) == [py |-> "int", s |-> s]

\* MCPToolResult.__bool__
result_bool(result) == Len(result.content) > 0

\* _execute_local_capability: `# Ensure result is MCPToolResult`
EnsureResult(value) ==
    IF value.py = "MCPToolResult" THEN [content |-> value.content, metadata |-> value.metadata]
    ELSE IF value.py = "str" THEN [content |-> <<TextItem(value.s)>>, metadata |-> <<>>]
    ELSE IF value.py = "dict" THEN [content |-> <<JsonItem(value.d)>>, metadata |-> <<>>]
    ELSE [content |-> <<TextItem(value.s)>>, metadata |-> <<>>]

\* The function and module the capability names are loaded.
Loaded(capability, modules) ==
    /\ capability.metadata.function /= ""
    /\ capability.metadata.module /= ""
    /\ capability.metadata.module \in DOMAIN modules
    /\ capability.metadata.function \in DOMAIN modules[capability.metadata.module]

NoneResult == [none |-> TRUE]

\* _execute_local_capability: None, or the result of the function; its
\* `except Exception` turns an exception of the function into None.
_execute_local_capability(capability, modules, arguments) ==
    IF ~Loaded(capability, modules) THEN NoneResult
    ELSE LET func == modules[capability.metadata.module][capability.metadata.function]
         IN  IF func.raises THEN NoneResult ELSE EnsureResult(func.returns)

\* execute_capability: `# Create mock result`
MockResult(agent, agent_id, capability_name, arguments, t) ==
    [content |-> <<TextItem("Executed " \o capability_name \o " on " \o agent.name),
                   JsonItem([agent_id |-> agent_id, capability |-> capability_name,
                             arguments |-> arguments, timestamp |-> t])>>,
     metadata |-> [execution_time |-> "100ms", agent_version |-> agent.version]]

AgentCommunicationError(message) ==
    [kind |-> "raise", exc |-> "AgentCommunicationError", message |-> message]
ExecReturns(result, simulated) ==
    [kind |-> "return", result |-> result, simulated |-> simulated]

\* A2AAgentClient.execute_capability at time t: `if result: return result`,
\* else the mock result (nothing inside its try raises an Exception).
execute_capability(agents, modules, agent_id, capability_name, arguments, t) ==
    IF agent_id \notin DOMAIN agents
    THEN AgentCommunicationError("Agent not found")
    ELSE LET agent == agents[agent_id]
             found == {i \in 1..Len(agent.capabilities) :
                          agent.capabilities[i].name = capability_name}
         IN  IF found = {}
             THEN AgentCommunicationError("Capability not found")
             ELSE LET capability ==
                          agent.capabilities[CHOOSE i \in found : \A j \in found : i <= j]
                      result == _execute_local_capability(capability, modules, arguments)
                  IN  IF "content" \in DOMAIN result /\ result_bool(result)
                      THEN ExecReturns(result, FALSE)
                      ELSE ExecReturns(MockResult(agent, agent_id, capability_name,
                                                  arguments, t), TRUE)

\* An agent of the client's registry with a name and a version.
LocalAgent(agent_id, capabilities) ==
    [agent_id |-> agent_id, name |-> "agent", version |-> "1.0.0",
     capabilities |-> capabilities]
\* A capability made by @agent_capability records its function and module.
LocalCapability(name, function, module) ==
    [name |-> name, requirements |-> {},
     metadata |-> [function |-> function, module |-> module]]

Funcs ==
    {FuncRaises, FuncReturns(PyResult(<<>>)), FuncReturns(PyResult(<<TextItem("v")>>)),
     FuncReturns(PyText("v")), FuncReturns(PyText("")),
     FuncReturns(PyDict([k |-> 1])), FuncReturns(PyOther("7"))}
SysModules ==
    {<<>>, [m |-> <<>>]} \cup {[m |-> [f |-> func]] : func \in Funcs}

\* A client whose registry holds one agent, and the modules loaded.
ExecInit ==
    \E function \in {"", "f"}, module \in {"", "m"}, modules \in SysModules :
        a2a = [NoA2a EXCEPT !.exec =
                  [NoExec EXCEPT
                      !.agents = [a1 |-> LocalAgent("a1",
                                      <<LocalCapability("X", function, module)>>)],
                      !.modules = modules]]

ExecuteCapability(agent_id, capability_name, arguments) ==
    /\ a2a.exec.op = "none"
    /\ a2a' = [a2a EXCEPT !.exec.op = "execute_capability",
                          !.exec.agent_id = agent_id,
                          !.exec.capability_name = capability_name,
                          !.exec.arguments = arguments,
                          !.exec.out = execute_capability(a2a.exec.agents,
                                           a2a.exec.modules, agent_id,
                                           capability_name, arguments, a2a.now)]
    /\ UNCHANGED notA2a

(***************************************************************************)
(* An agent registry: agents come, go and report, the clock moves, and the *)
(* best agent for a capability is looked up.                               *)
(***************************************************************************)
A2aInit ==
    /\ a2a = NoA2a
    /\ RegIdle
    /\ RpcIdle
    /\ WfIdle
    /\ SharedIdle
    /\ SecIdle
    /\ AuthIdle

A2aNext ==
    \/ \E agent_id \in AgentIds, capabilities \in CapabilityLists, status \in Statuses :
           RegisterAgent(agent_id, capabilities, status)
    \/ \E agent_id \in AgentIds : UnregisterAgent(agent_id)
    \/ \E agent_id \in AgentIds, h \in HealthScores, m \in LoadMetrics :
           UpdateAgentHealth(agent_id, h, m)
    \/ \E capability_name \in CapabilityNames, requirements \in {{}, {"gpu"}} :
           FindBestAgent(capability_name, requirements)
    \/ A2aTick

SpecA2a == A2aInit /\ [][A2aNext]_vars

(***************************************************************************)
(* A client executes a capability of an agent of its registry.             *)
(***************************************************************************)
ExecSpecInit ==
    /\ ExecInit
    /\ RegIdle
    /\ RpcIdle
    /\ WfIdle
    /\ SharedIdle
    /\ SecIdle
    /\ AuthIdle

ExecNext ==
    \E agent_id \in {"a1", "a2"}, capability_name \in {"X", "Y"},
       arguments \in {<<>>, [x |-> "1"]} :
        ExecuteCapability(agent_id, capability_name, arguments)

SpecExec == ExecSpecInit /\ [][ExecNext]_vars

(***************************************************************************)
(* One orchestrator asked to execute workflows while others are under way. *)
(***************************************************************************)
OrchestratorInit ==
    /\ A2aIdle
    /\ RegIdle
    /\ RpcIdle
    /\ WfIdle
    /\ SharedIdle
    /\ SecIdle
    /\ AuthIdle

OrchestratorNext ==
    \/ \E e \in Executions, workflow_id \in {"wf", "demo"},
          steps \in {<<"s1">>, <<"s1", "s2">>} :
           TrackWorkflow(e, workflow_id, steps)
    \/ \E e \in Executions, success \in BOOLEAN : UntrackWorkflow(e, success)
    \/ A2aTick

SpecOrchestrator == OrchestratorInit /\ [][OrchestratorNext]_vars

(***************************************************************************)
(* A workflow step with placeholders in its arguments is prepared.         *)
(***************************************************************************)
PrepSpecInit ==
    /\ PrepInit
    /\ RegIdle
    /\ RpcIdle
    /\ WfIdle
    /\ SharedIdle
    /\ SecIdle
    /\ AuthIdle

PrepNext == PrepareArguments

SpecPrep == PrepSpecInit /\ [][PrepNext]_vars

(***************************************************************************)
(* _topological_sort: depth-first traversal with cycle detection.          *)
(* The traversal state is [visited, temp_visited, result, raised].         *)
(***************************************************************************)
RECURSIVE visit(_, _, _), visitDeps(_, _, _, _)
RECURSIVE visit_no_cycle_check(_, _, _)

\* visit as it would be if a step met again on the current path were taken for
\* an already visited one instead of raising.
visit_no_cycle_check(sm, S, step_id) ==
    IF S.raised THEN S
    ELSE IF step_id \in S.temp_visited \cup S.visited THEN S
    ELSE LET S1 == [S EXCEPT !.temp_visited = @ \cup {step_id}]
             S2 == visitDeps(sm, S1, InOrder(sm[step_id].depends_on \cap StepIds), 1)
         IN  [S2 EXCEPT !.temp_visited = @ \ {step_id},
                        !.visited = @ \cup {step_id},
                        !.result = Append(@, step_id)]

visitDeps(sm, S, deps, i) ==
    IF i > Len(deps) \/ S.raised THEN S
    ELSE visitDeps(sm,
                   IF deps[i] \in DOMAIN sm THEN visit(sm, S, deps[i]) ELSE S,
                   deps, i + 1)

visit(sm, S, step_id) ==
    IF S.raised THEN S
    ELSE IF step_id \in S.temp_visited THEN [S EXCEPT !.raised = TRUE]
    ELSE IF step_id \in S.visited THEN S
    ELSE LET S1 == [S EXCEPT !.temp_visited = @ \cup {step_id}]
             S2 == visitDeps(sm, S1, InOrder(sm[step_id].depends_on \cap StepIds), 1)
         IN  IF S2.raised THEN S2
             ELSE [S2 EXCEPT !.temp_visited = @ \ {step_id},
                             !.visited = @ \cup {step_id},
                             !.result = Append(@, step_id)]

RECURSIVE topoLoop(_, _, _, _)
topoLoop(sm, S, ids, i) ==
    IF i > Len(ids) \/ S.raised THEN S
    ELSE topoLoop(sm,
                  IF ids[i] \notin S.visited THEN visit(sm, S, ids[i]) ELSE S,
                  ids, i + 1)

\* _topological_sort as it would be if its loop skipped the first step id.
_topological_sort_skip_first(sm) ==
    topoLoop(sm,
             [visited |-> {}, temp_visited |-> {}, result |-> <<>>, raised |-> FALSE],
             InOrder(DOMAIN sm), 2)

_topological_sort(sm) ==
    topoLoop(sm,
             [visited |-> {}, temp_visited |-> {}, result |-> <<>>, raised |-> FALSE],
             InOrder(DOMAIN sm), 1)

(***************************************************************************)
(* _execute_workflow_parallel: the readiness test of one scan.             *)
(***************************************************************************)
\* IsReady as it would be with any() in place of all().
IsReady_any(sm, completed, step_id) ==
    \/ sm[step_id].depends_on = {}
    \/ \E dep \in sm[step_id].depends_on : dep \in completed

IsReady(sm, completed, step_id) ==
    \A dep \in sm[step_id].depends_on : dep \in completed

ReadySet(sm, completed, remaining) ==
    {s \in remaining : IsReady(sm, completed, s)}

(***************************************************************************)
(* The two executors for fixed step outcomes: outcomes[s] tells whether    *)
(* the _execute_workflow_step call for step s returns a result (TRUE) or    *)
(* raises (FALSE).  order is the iteration order of the set                *)
(* remaining_steps.                                                        *)
(***************************************************************************)
StepRaised == "delegate_task failed"

\* The for loop of _execute_workflow_sequential over sorted_steps.
RECURSIVE SequentialLoop(_, _, _, _)
SequentialLoop(sorted, outcomes, completed, i) ==
    IF i > Len(sorted) THEN Ran(TRUE, completed, "none")
    ELSE IF outcomes[sorted[i]]
         THEN SequentialLoop(sorted, outcomes, completed \cup {sorted[i]}, i + 1)
         ELSE Ran(FALSE, completed, StepRaised)

_execute_workflow_sequential(sm, outcomes) ==
    LET T == _topological_sort(sm) IN
    IF T.raised THEN Ran(FALSE, {}, "Circular dependency detected")
    ELSE SequentialLoop(T.result, outcomes, {}, 1)

\* The for loop over zip(ready_steps, results): the first exception among
\* the results is raised, the results before it are recorded.
RECURSIVE GatherFold(_, _, _, _)
GatherFold(F, outcomes, ready, i) ==
    IF i > Len(ready) THEN F
    ELSE IF ~outcomes[ready[i]] THEN [F EXCEPT !.raised = StepRaised]
    ELSE GatherFold([F EXCEPT !.completed = @ \cup {ready[i]},
                              !.remaining = @ \ {ready[i]}],
                    outcomes, ready, i + 1)

\* The while loop of _execute_workflow_parallel.
RECURSIVE ParallelLoop(_, _, _, _)
ParallelLoop(sm, outcomes, order, F) ==
    IF F.remaining = {} THEN Ran(TRUE, F.completed, "none")
    ELSE LET ready == SelectSeq(order,
                         LAMBDA s : s \in ReadySet(sm, F.completed, F.remaining)) IN
         IF ready = <<>>
         THEN Ran(FALSE, F.completed, "Circular dependency detected in workflow")
         ELSE LET G == GatherFold(F, outcomes, ready, 1) IN
              IF G.raised # "none" THEN Ran(FALSE, G.completed, G.raised)
              ELSE ParallelLoop(sm, outcomes, order, G)

_execute_workflow_parallel(sm, outcomes, order) ==
    ParallelLoop(sm, outcomes, order,
                 [completed |-> {}, remaining |-> DOMAIN sm, raised |-> "none"])

(***************************************************************************)
(* The workflows of the model: the first n steps of StepOrder, each with   *)
(* at most MaxDeps dependency ids.                                         *)
(***************************************************************************)
DepSets == {D \in SUBSET DepIds : Cardinality(D) <= MaxDeps}

Workflows ==
    UNION {[{StepOrder[i] : i \in 1..n} -> [depends_on : DepSets]] :
           n \in 0..Len(StepOrder)}

WfInit ==
    /\ RegIdle
    /\ RpcIdle
    /\ A2aIdle
    /\ SharedIdle
    /\ SecIdle
    /\ AuthIdle
    /\ step_map \in Workflows
    /\ parallel_execution \in BOOLEAN
    /\ WfRest

\* execute_workflow returns: the finally clause removes the workflow id.
Return(success, steps, error) ==
    /\ wf_pc' = "done"
    /\ wf_result' = [success |-> success, steps |-> steps, error |-> error,
                     returned |-> TRUE]
    /\ active_workflows' = active_workflows \ {WorkflowId}

\* execute_workflow up to the call of the mode's executor.
ExecuteWorkflow ==
    /\ UNCHANGED notWf
    /\ wf_pc = "init"
    /\ active_workflows' = active_workflows \cup {WorkflowId}
    /\ completed_steps' = {}
    /\ IF parallel_execution
       THEN /\ wf_pc' = "scan"
            /\ remaining_steps' = DOMAIN step_map
       ELSE /\ wf_pc' = "sort"
            /\ UNCHANGED remaining_steps
    /\ UNCHANGED <<step_map, parallel_execution, ready_steps, sorted_steps, seq_idx,
                   task, wf_result, wf_hist>>

\* One pass of the while loop of _execute_workflow_parallel up to the gather.
ParallelScan ==
    /\ UNCHANGED notWf
    /\ wf_pc = "scan"
    /\ IF remaining_steps = {}
       THEN /\ Return(TRUE, completed_steps, "none")
            /\ UNCHANGED <<ready_steps, task>>
       ELSE LET ready == ReadySet(step_map, completed_steps, remaining_steps) IN
            IF ready = {}
            THEN /\ Return(FALSE, completed_steps,
                           "Circular dependency detected in workflow")
                 /\ UNCHANGED <<ready_steps, task>>
            ELSE /\ \E order \in Perms(ready) : ready_steps' = order
                 /\ task' = [s \in StepIds |->
                                IF s \in ready THEN [IdleTask EXCEPT !.st = "created"]
                                ELSE task[s]]
                 /\ wf_pc' = "wave"
                 /\ UNCHANGED <<wf_result, active_workflows>>
    /\ UNCHANGED <<step_map, parallel_execution, completed_steps, remaining_steps,
                   sorted_steps, seq_idx, wf_hist>>

\* _execute_workflow_step begins: arguments are prepared and the retry loop is
\* entered; with an empty range the loop body never runs and the call raises.
StepBegin(s) ==
    /\ UNCHANGED notWf
    /\ wf_pc \in {"wave", "seq"}
    /\ task[s].st = "created"
    /\ \E rc \in 0..MaxRetry :
         /\ task' = [task EXCEPT ![s] =
                IF rc = 0
                THEN [@ EXCEPT !.st = "failed", !.retry_count = rc,
                               !.error = "Max retries exceeded"]
                ELSE [@ EXCEPT !.st = "running", !.retry_count = rc]]
         /\ wf_hist' = [wf_hist EXCEPT !.begun_with[s] = completed_steps,
                                       !.no_attempts = @ \/ rc = 0]
    /\ UNCHANGED <<step_map, parallel_execution, wf_pc, active_workflows,
                   completed_steps, remaining_steps, ready_steps, sorted_steps,
                   seq_idx, wf_result>>

\* The except clause when every failed attempt is followed by a sleep.
attempt_raised_always_sleeps(t) ==
    [t EXCEPT !.st = "sleeping",
              !.sleep = Pow2(t.attempt),
              !.sleeps = Append(@, Pow2(t.attempt)),
              !.attempts = @ + 1,
              !.last_exception = <<t.attempt>>,
              !.error = "delegate_task failed"]

\* The except clause of the retry loop for the task t whose attempt raised:
\* last_exception = e, a sleep unless this was the last attempt, and after
\* the last `raise last_exception`.
attempt_raised(t) ==
    IF t.attempt < t.retry_count - 1
    THEN [t EXCEPT !.st = "sleeping",
                   !.sleep = Pow2(t.attempt),
                   !.sleeps = Append(@, Pow2(t.attempt)),
                   !.attempts = @ + 1,
                   !.last_exception = <<t.attempt>>,
                   !.error = "delegate_task failed"]
    ELSE [t EXCEPT !.st = "failed",
                   !.attempts = @ + 1,
                   !.last_exception = <<t.attempt>>,
                   !.error = "delegate_task failed"]

\* One attempt of the retry loop: delegate_task returns or raises.
StepAttempt(s) ==
    /\ UNCHANGED notWf
    /\ wf_pc \in {"wave", "seq"}
    /\ task[s].st = "running"
    /\ \E ok \in BOOLEAN :
         IF ok
         THEN /\ task' = [task EXCEPT ![s].st = "ok", ![s].attempts = @ + 1]
              /\ UNCHANGED wf_hist
         ELSE /\ task' = [task EXCEPT ![s] = attempt_raised(@)]
              /\ wf_hist' = [wf_hist EXCEPT !.attempt_failed = TRUE]
    /\ UNCHANGED <<step_map, parallel_execution, wf_pc, active_workflows,
                   completed_steps, remaining_steps, ready_steps, sorted_steps,
                   seq_idx, wf_result>>

\* asyncio.sleep(2 ** attempt) returns and the loop goes to the next attempt.
StepWake(s) ==
    /\ UNCHANGED notWf
    /\ wf_pc \in {"wave", "seq"}
    /\ task[s].st = "sleeping"
    /\ task' = [task EXCEPT ![s] = [@ EXCEPT !.st = "running", !.sleep = 0,
                                              !.attempt = @ + 1]]
    /\ UNCHANGED <<step_map, parallel_execution, wf_pc, active_workflows,
                   completed_steps, remaining_steps, ready_steps, sorted_steps,
                   seq_idx, wf_result, wf_hist>>

\* The fold when an exception among the results is recorded like a result.
RECURSIVE FoldWave_records_exceptions(_, _, _)
FoldWave_records_exceptions(F, order, i) ==
    IF i > Len(order) THEN F
    ELSE FoldWave_records_exceptions([F EXCEPT !.completed = @ \cup {order[i]},
                                               !.remaining = @ \ {order[i]}],
                                     order, i + 1)

\* The fold after gather: results are taken in the order of ready_steps, the
\* first exception is raised and ends the fold.
RECURSIVE FoldWave(_, _, _)
FoldWave(F, order, i) ==
    IF i > Len(order) \/ F.raised # "none" THEN F
    ELSE IF task[order[i]].st = "failed"
         THEN [F EXCEPT !.raised = task[order[i]].error]
         ELSE FoldWave([F EXCEPT !.completed = @ \cup {order[i]},
                                 !.remaining = @ \ {order[i]}],
                       order, i + 1)

ParallelFold ==
    /\ UNCHANGED notWf
    /\ wf_pc = "wave"
    /\ \A s \in Range(ready_steps) : task[s].st \in {"ok", "failed"}
    /\ LET F == FoldWave([completed |-> completed_steps, remaining |-> remaining_steps,
                          raised |-> "none"], ready_steps, 1) IN
         /\ completed_steps' = F.completed
         /\ remaining_steps' = F.remaining
         /\ IF F.raised # "none"
            THEN Return(FALSE, F.completed, F.raised)
            ELSE /\ wf_pc' = "scan"
                 /\ UNCHANGED <<wf_result, active_workflows>>
    /\ UNCHANGED <<step_map, parallel_execution, ready_steps, sorted_steps, seq_idx,
                   task, wf_hist>>

\* _execute_workflow_sequential: the topological sort.
SequentialSort ==
    /\ UNCHANGED notWf
    /\ wf_pc = "sort"
    /\ LET T == _topological_sort(step_map) IN
         IF T.raised
         THEN /\ Return(FALSE, completed_steps, "Circular dependency detected")
              /\ UNCHANGED <<sorted_steps, seq_idx>>
         ELSE /\ sorted_steps' = T.result
              /\ seq_idx' = 1
              /\ wf_pc' = "seq"
              /\ UNCHANGED <<wf_result, active_workflows>>
    /\ UNCHANGED <<step_map, parallel_execution, completed_steps, remaining_steps,
                   ready_steps, task, wf_hist>>

\* The for loop of _execute_workflow_sequential: call the next step, or return.
SequentialNext ==
    /\ UNCHANGED notWf
    /\ wf_pc = "seq"
    /\ \A s \in StepIds : task[s].st \in {"idle", "recorded"}
    /\ IF seq_idx > Len(sorted_steps)
       THEN /\ Return(TRUE, completed_steps, "none")
            /\ UNCHANGED task
       ELSE /\ task' = [task EXCEPT ![sorted_steps[seq_idx]].st = "created"]
            /\ UNCHANGED <<wf_pc, wf_result, active_workflows>>
    /\ UNCHANGED <<step_map, parallel_execution, completed_steps, remaining_steps,
                   ready_steps, sorted_steps, seq_idx, wf_hist>>

\* The awaited step returns (its result is recorded) or raises.
SequentialRecord ==
    /\ UNCHANGED notWf
    /\ wf_pc = "seq"
    /\ seq_idx <= Len(sorted_steps)
    /\ LET s == sorted_steps[seq_idx] IN
         /\ task[s].st \in {"ok", "failed"}
         /\ IF task[s].st = "ok"
            THEN /\ completed_steps' = completed_steps \cup {s}
                 /\ seq_idx' = seq_idx + 1
                 /\ task' = [task EXCEPT ![s].st = "recorded"]
                 /\ UNCHANGED <<wf_pc, wf_result, active_workflows>>
            ELSE /\ Return(FALSE, completed_steps, task[s].error)
                 /\ UNCHANGED <<completed_steps, seq_idx, task>>
    /\ UNCHANGED <<step_map, parallel_execution, remaining_steps, ready_steps,
                   sorted_steps, wf_hist>>

WfNext ==
    \/ ExecuteWorkflow
    \/ ParallelScan
    \/ ParallelFold
    \/ SequentialSort
    \/ SequentialNext
    \/ SequentialRecord
    \/ \E s \in StepIds : StepBegin(s)
    \/ \E s \in StepIds : StepAttempt(s)
    \/ \E s \in StepIds : StepWake(s)

SpecWorkflow == WfInit /\ [][WfNext]_vars

\* The event loop keeps running whatever is runnable, and every delegated
\* attempt and every sleep ends.
FairWorkflow == SpecWorkflow /\ WF_vars(WfNext)

(***************************************************************************)
(* One workflow executed in both modes with the same step outcomes.        *)
(***************************************************************************)
ModesInit ==
    /\ RegIdle
    /\ RpcIdle
    /\ WfIdle
    /\ SharedIdle
    /\ SecIdle
    /\ AuthIdle
    /\ \E sm \in Workflows, outcomes \in [StepIds -> BOOLEAN], order \in Perms(StepIds) :
         a2a = [NoA2a EXCEPT !.modes = [NoModes EXCEPT !.step_map = sm,
                                                       !.outcomes = outcomes,
                                                       !.order = order]]

\* execute_workflow(..., parallel_execution=False).
ExecuteSequential ==
    /\ UNCHANGED notA2a
    /\ ~a2a.modes.sequential.ran
    /\ a2a' = [a2a EXCEPT !.modes.sequential =
                  _execute_workflow_sequential(a2a.modes.step_map, a2a.modes.outcomes)]

\* execute_workflow(..., parallel_execution=True).
ExecuteParallel ==
    /\ UNCHANGED notA2a
    /\ ~a2a.modes.parallel.ran
    /\ a2a' = [a2a EXCEPT !.modes.parallel =
                  _execute_workflow_parallel(a2a.modes.step_map, a2a.modes.outcomes,
                                             a2a.modes.order)]

ModesNext ==
    \/ ExecuteSequential
    \/ ExecuteParallel

SpecModes == ModesInit /\ [][ModesNext]_vars

(***************************************************************************)
(* Properties of the dependency graph of a workflow, stated on the graph   *)
(* itself and not through the orchestrator's own traversal.                *)
(***************************************************************************)
\* The steps of the workflow that step s names in its depends_on.
KnownDeps(sm, s) == sm[s].depends_on \cap DOMAIN sm

RECURSIVE Closure(_, _, _)
Closure(sm, S, n) ==
    IF n = 0 THEN S
    ELSE Closure(sm, S \cup UNION {KnownDeps(sm, x) : x \in S}, n - 1)

\* The steps s depends on, directly or transitively.
DependsOn(sm, s) == Closure(sm, KnownDeps(sm, s), Cardinality(DOMAIN sm))

HasCycle(sm) == \E s \in DOMAIN sm : s \in DependsOn(sm, s)

\* Every depends_on id names a step of the workflow.
DepsClosed(sm) == \A s \in DOMAIN sm : sm[s].depends_on \subseteq DOMAIN sm

Begun(s) == wf_hist.begun_with[s] # {"-"}

Returned == wf_pc = "done" /\ wf_result.returned

C2_CycleFails ==
    HasCycle(step_map) ~>
        (Returned /\ ~wf_result.success /\ wf_result.error # "none")

\* A parallel run that completed a first wave and then found the cycle.
C2_Witness ==
    /\ parallel_execution
    /\ HasCycle(step_map)
    /\ Returned
    /\ completed_steps # {}
    /\ wf_result.error = "Circular dependency detected in workflow"

C4_RegisterOnce ==
    /\ [](\A k \in DOMAIN tools : tools[k].name = k)
    /\ [][last'.op = "register" =>
            IF last'.name \in DOMAIN tools
            THEN last'.out.exc = "ValueError" /\ tools' = tools
            ELSE /\ last'.out.kind = "return"
                 /\ DOMAIN tools' = DOMAIN tools \cup {last'.name}
                 /\ tools'[last'.name] = last'.tool
                 /\ \A k \in DOMAIN tools : tools'[k] = tools[k]]_vars
    /\ [][(last.op = "unregister" /\ last'.op = "register" /\ last'.name = last.name)
            => (last'.out.kind = "return" /\ tools'[last'.name] = last'.tool)]_vars

\* A registration of another tool under a registered name has just failed,
\* with two names registered.
C4_Witness ==
    /\ last.op = "register"
    /\ last.out.exc = "ValueError"
    /\ DOMAIN tools = Names
    /\ tools[last.name] # last.tool

(***************************************************************************)
(* C5  execute_tool on a registered tool whose execute raises returns a    *)
(* ToolResult flagged TOOL_EXECUTION_ERROR and never propagates an         *)
(* exception.  The code raises UnboundLocalError instead.                  *)
(***************************************************************************)
HasError(content, code) ==
    \E i \in DOMAIN content : content[i].type = "error" /\ content[i].code = code

\* C5 as stated: a call whose tool.execute raised returned a result flagged
\* TOOL_EXECUTION_ERROR.
C5_AsStated ==
    (last.op = "execute" /\ last.admitted /\ last.execute_raised)
    => (last.out.kind = "return" /\ HasError(last.out.content, "TOOL_EXECUTION_ERROR"))

(***************************************************************************)
(* C6  Executing a declared tool through execute_tool with a required      *)
(* parameter missing, or with a parameter that is not in its schema, fails *)
(* with a Validation error (VALIDATION_ERROR) naming that parameter, and   *)
(* the tool body is not invoked.  The code raises UnboundLocalError        *)
(* instead of the ValidationError (see C5).                                *)
(***************************************************************************)
MissingRequired(arguments) ==
    {n \in DOMAIN Schema : Schema[n].required /\ n \notin DOMAIN arguments}
UnknownParameters(arguments) == DOMAIN arguments \ DOMAIN Schema

\* C6 as stated: a call of a declared tool with a missing or unknown parameter
\* raised ValidationError naming it, and the body did not run.
C6_AsStated ==
    (/\ last.op = "execute"
     /\ last.admitted
     /\ last.tool.kind = "mcp_tool"
     /\ MissingRequired(last.args) \cup UnknownParameters(last.args) # {})
    => (/\ last.out.kind = "raise"
        /\ last.out.exc = "ValidationError"
        /\ last.out.code = "VALIDATION_ERROR"
        /\ last.out.field \in MissingRequired(last.args) \cup UnknownParameters(last.args)
        /\ ~last.out.body_ran)

(***************************************************************************)
(* C9  Within one call of stream_tool the consumer receives the tool's     *)
(* updates in the order the tool produced them; if the producer raises     *)
(* after k updates the consumer receives those k updates followed by       *)
(* exactly one error-flagged update, the stream ends, and no exception     *)
(* reaches the consumer.                                                   *)
(***************************************************************************)
C9_StreamOrder ==
    /\ stream.st \in {"open", "erroring", "ended"} =>
         /\ stream.propagated = "none"
         /\ IF stream.producer_raised \/ stream.validation_failed
            THEN /\ stream.received = Append(stream.produced, StreamError)
                 /\ stream.st \in {"erroring", "ended"}
            ELSE stream.received = stream.produced
    /\ stream.producer_raised => stream.st \in {"erroring", "ended"}

\* A directly constructed streaming tool raised after two different updates
\* and the stream has ended.
C9_Witness ==
    /\ stream.st = "ended"
    /\ stream.tool.kind = "raw_streaming"
    /\ stream.producer_raised
    /\ Len(stream.produced) = 2
    /\ stream.produced[1] # stream.produced[2]
    /\ Len(stream.received) = 3

(***************************************************************************)
(* C10  For a tool registered with a numeric rate limit N >= 0,            *)
(* execute_tool and stream_tool together admit at most N calls of the tool *)
(* within any 60-second window, reject further calls with                  *)
(* RateLimitExceeded before the tool body runs and without counting them,  *)
(* and admit calls again once the earlier calls are older than the window. *)
(* The code treats N = 0 as no limit.                                      *)
(***************************************************************************)
\* The admitted calls of the tool of entry i within the window that ends
\* with that entry.
InWindow(i) ==
    {j \in 1..i : /\ reg_hist.admitted[j].tool = reg_hist.admitted[i].tool
                  /\ reg_hist.admitted[i].t - reg_hist.admitted[j].t < Window}

\* C10 as stated: at most N admitted calls of a tool of limit N >= 0 in a
\* window; a rejected call did not run the body, was not counted, and follows
\* an admitted call that is still in the window.
C10_AsStated ==
    /\ \A i \in DOMAIN reg_hist.admitted :
         reg_hist.admitted[i].tool.rate_limit >= 0
         => Cardinality(InWindow(i)) <= reg_hist.admitted[i].tool.rate_limit
    /\ (last.op \in {"execute", "stream"} /\ last.out.exc = "RateLimitError")
         => (/\ ~last.out.body_ran
             /\ ~last.admitted
             /\ \E j \in DOMAIN reg_hist.admitted :
                  /\ reg_hist.admitted[j].tool.name = last.name
                  /\ now - reg_hist.admitted[j].t < Window)
    /\ \A n \in Names :
         Len(requests[n]) <= Cardinality({j \in DOMAIN reg_hist.admitted :
                                             reg_hist.admitted[j].tool.name = n})

(***************************************************************************)
(* C7  When a unary tool's body raises, the failure's error code and       *)
(* message reach the RPC client: MCPClient.execute_tool raises an error    *)
(* carrying them or returns a result that contains the inline error item;  *)
(* a failed tool call never arrives at the client as an error-free result. *)
(* The server's conversion drops the error item of a declared tool, and    *)
(* the client gets a result with no content.                               *)
(***************************************************************************)
\* C7 as stated: after a call whose body raised, the client has the error.
C7_AsStated ==
    (rpc.st = "done" /\ rpc.body.raises /\ rpc.out.body_ran)
    => \/ /\ rpc.outcome.kind = "raise"
          /\ rpc.outcome.code = "TOOL_EXECUTION_ERROR"
          /\ rpc.outcome.message = Message("ValueError")
       \/ /\ rpc.outcome.kind = "return"
          /\ \E i \in DOMAIN rpc.outcome.content :
               rpc.outcome.content[i] =
                   ErrorItem("TOOL_EXECUTION_ERROR", Message("ValueError"))

(***************************************************************************)
(* C8  For every ToolResult of text, structured and binary content items   *)
(* and string metadata, the server's conversion to wire form followed by   *)
(* the client's conversion back yields the same content items in the same  *)
(* order and the same metadata.  A number of a structured item travels as  *)
(* a double, so this holds as stated only for numbers that are doubles.    *)
(***************************************************************************)
IsWireContent(content) ==
    \A i \in DOMAIN content : content[i].type \in {"text", "json", "binary"}

\* hi * 2^53 + lo is a double: it is below 2^53, or it is even.
IsDouble(v) == v.hi = 0 \/ v.lo % 2 = 0

NumbersAreDoubles(content) ==
    \A i \in DOMAIN content :
        content[i].type = "json" =>
            \A k \in DOMAIN content[i].data :
                content[i].data[k].py = "number" => IsDouble(content[i].data[k])

\* The client has the result the server converted.
RoundTrip ==
    /\ rpc.outcome.kind = "return"
    /\ rpc.outcome.content = rpc.out.content
    /\ rpc.outcome.metadata = rpc.out.metadata

\* C8 as stated: every result of text, structured and binary items comes back
\* the same.
C8_AsStated ==
    (rpc.st = "done" /\ rpc.out.kind = "return" /\ IsWireContent(rpc.out.content))
    => RoundTrip

\* C8 amended: every such result whose numbers are doubles comes back the same.
C8_RoundTripOfDoubles ==
    (/\ rpc.st = "done"
     /\ rpc.out.kind = "return"
     /\ IsWireContent(rpc.out.content)
     /\ NumbersAreDoubles(rpc.out.content))
    => RoundTrip

\* The client got back a result of a structured item that holds a number
\* followed by a binary item, with metadata.
C8_Witness ==
    /\ rpc.st = "done"
    /\ rpc.out.kind = "return"
    /\ Len(rpc.out.content) = 2
    /\ rpc.out.content[1].type = "json"
    /\ "n" \in DOMAIN rpc.out.content[1].data
    /\ rpc.out.content[2].type = "binary"
    /\ DOMAIN rpc.out.metadata # {}
    /\ RoundTrip

(***************************************************************************)
(* C11: the token bucket.                                                  *)
(***************************************************************************)
TheBucket == sec.token_buckets["bucket"]

\* The consumptions made so far, in order, when each took one token.
Consumptions == sec.hist

\* The first i consumptions were made at time t or before.
MadeUpTo(cs, i, t) == \A j \in 1..i : cs[j].t <= t

\* How many of the consumptions were made at time t.
MadeAt(cs, t) == Cardinality({j \in 1..Len(cs) : cs[j].t = t})

\* 1 / refill_rate, in seconds.
SecondsPerToken(b) == SecondsPerMinute \div b.refill_rate

\* The token count after the lazy refill at time t, as the claim states it.
Available(b, t) ==
    Min(SecondsPerMinute * b.capacity,
        b.tokens60 + (t - b.last_refill) * b.refill_rate)

C11_InRange ==
    /\ TheBucket.tokens60 >= 0
    /\ TheBucket.tokens60 <= SecondsPerMinute * TheBucket.capacity

C11_Burst ==
    LET cs == Consumptions
    IN  \A i \in 1..Len(cs) :
            MadeUpTo(cs, i, 0) => (cs[i].ok <=> i <= TheBucket.capacity)

C11_OneMore ==
    LET cs == Consumptions
        w == SecondsPerToken(TheBucket)
        k == MadeAt(cs, 0)
    IN  /\ k >= TheBucket.capacity
        /\ \A j \in 1..Len(cs) : cs[j].t \in {0, w}
        => \A i \in 1..Len(cs) : cs[i].t = w => (cs[i].ok <=> i = k + 1)

C11_Consume ==
    (sec' /= sec /\ sec'.now = sec.now /\ sec'.last.op = "consume") =>
        LET b == TheBucket
            n == sec'.last.tokens
            have == Available(b, sec.now)
        IN  /\ sec'.last.ok <=> have >= SecondsPerMinute * n
            /\ sec'.token_buckets["bucket"].tokens60 =
                   IF sec'.last.ok THEN have - SecondsPerMinute * n ELSE have

\* C11: consume(n) succeeds iff the tokens after the lazy refill are at least
\* n; from a full bucket exactly capacity immediate unit consumptions succeed
\* and the next fails; 1/r seconds later exactly one more succeeds; the token
\* count stays within 0..capacity.
C11_TokenBucket ==
    /\ [](C11_InRange /\ C11_Burst /\ C11_OneMore)
    /\ [][C11_Consume]_vars

\* A bucket of capacity 2 drained at once, refused, and one second-per-token
\* later giving out exactly one token more.
C11_Witness ==
    LET cs == Consumptions
    IN  /\ TheBucket.capacity = 2
        /\ Len(cs) = 5
        /\ MadeAt(cs, 0) = 3
        /\ MadeAt(cs, SecondsPerToken(TheBucket)) = 2
        /\ <<cs[1].ok, cs[2].ok, cs[3].ok, cs[4].ok, cs[5].ok>>
               = <<TRUE, TRUE, FALSE, TRUE, FALSE>>

(***************************************************************************)
(* C12: whose bucket a call draws from.                                    *)
(***************************************************************************)
\* The limiter is on and limits by user only / by tool only (per_ip is off,
\* as it is by default).
PerUserOnly(c) == c.enabled /\ c.per_user /\ ~c.per_tool /\ ~c.per_ip
PerToolOnly(c) == c.enabled /\ c.per_tool /\ ~c.per_user /\ ~c.per_ip

\* The bucket of a user under per-user limiting; callers without an id share one.
OwnKey(user_id) == IF user_id = NoId THEN "global" ELSE "user:" \o user_id

\* A step of the limiter that is a call of check_rate_limit.
IsCheck == sec' /= sec /\ sec'.now = sec.now

\* The bucket of key k is the same before and after the step.
SameBucket(k) ==
    /\ (k \in DOMAIN sec.token_buckets) <=> (k \in DOMAIN sec'.token_buckets)
    /\ k \in DOMAIN sec.token_buckets => sec'.token_buckets[k] = sec.token_buckets[k]

\* Nobody took tokens from another user's bucket (per user), and every user
\* took them from the tool's bucket (per tool).
C12_Drawn ==
    \A d \in sec.served :
        /\ PerUserOnly(sec.config) => d[1] = OwnKey(d[2])
        /\ PerToolOnly(sec.config) => d[1] \in {"tool:" \o n : n \in ToolNames}

\* A call is decided by the one bucket of its user (per user) or of its tool
\* (per tool), and touches no other bucket.
C12_Step ==
    (IsCheck /\ (PerUserOnly(sec.config) \/ PerToolOnly(sec.config))) =>
        LET call == sec'.last
            key == IF sec.config.per_user THEN OwnKey(call.user_id)
                   ELSE "tool:" \o call.tool_name
            b == BucketOf(sec.token_buckets, sec.config, sec.refill_rate, key, sec.now)
        IN  /\ call.allowed <=>
                   Available(b, sec.now) >= SecondsPerMinute * call.request_size
            /\ \A k \in (DOMAIN sec.token_buckets \cup DOMAIN sec'.token_buckets) \ {key} :
                   SameBucket(k)

\* C12: with per_user on and per_tool off a user's admission depends on that
\* user's own bucket only, which no other user's call changes; with per_tool
\* on and per_user off every user of a tool draws from the tool's one bucket.
C12_Buckets == [](C12_Drawn) /\ [][C12_Step]_vars

\* Two users have emptied the bucket of the tool between them and the next
\* call is refused.
C12_Witness ==
    /\ PerToolOnly(sec.config)
    /\ sec.config.burst_size = 2
    /\ sec.now = 0
    /\ {<<"tool:t", "u1">>, <<"tool:t", "u2">>} \subseteq sec.served
    /\ sec.last.op = "check_rate_limit"
    /\ ~sec.last.allowed
    /\ sec.last.request_size = 1
    /\ sec.last.info.key = "tool:t"

(***************************************************************************)
(* C13: every applicable key is checked.                                   *)
(***************************************************************************)
\* The keys that apply to a call, as a set.
ApplicableKeys(c, call) ==
    LET ks == {k \in {"user:" \o call.user_id} : c.per_user /\ call.user_id /= NoId}
              \cup {k \in {"tool:" \o call.tool_name} : c.per_tool /\ call.tool_name /= NoId}
              \cup {k \in {"ip:" \o call.ip_address} : c.per_ip /\ call.ip_address /= NoId}
    IN  IF ks = {} THEN {"global"} ELSE ks

\* What the bucket of key k holds when the call arrives, in sixtieths.
Holds(k) == Available(BucketOf(sec.token_buckets, sec.config, sec.refill_rate, k, sec.now), sec.now)

C13_Step ==
    (IsCheck /\ sec.config.enabled) =>
        LET call == sec'.last
            keys == ApplicableKeys(sec.config, call)
            need == SecondsPerMinute * call.request_size
        IN  /\ call.allowed <=> \A k \in keys : Holds(k) >= need
            /\ call.allowed =>
                   \A k \in keys :
                       /\ k \in DOMAIN sec'.token_buckets
                       /\ sec'.token_buckets[k].tokens60 = Holds(k) - need
            /\ \A k \in (DOMAIN sec.token_buckets \cup DOMAIN sec'.token_buckets) \ keys :
                   SameBucket(k)
            /\ ~call.allowed =>
                   /\ call.info.key \in keys
                   /\ Holds(call.info.key) < need
                   /\ call.info.limit = sec.config.requests_per_minute
                   /\ call.info.window = sec.config.window_size
                   /\ call.info.retry_after =
                          Seconds(need - Holds(call.info.key), sec.config.requests_per_minute)

\* C13: an enabled limiter checks every applicable key (user, tool and ip as
\* configured and known, else 'global'), admits the call iff each of their
\* buckets holds enough tokens, taking them from each, and on refusal reports
\* a failing key with the limit, the window and the time to wait.
C13_EveryKey == [][C13_Step]_vars

\* A call whose user bucket had tokens is refused by the bucket of the tool.
C13_Witness ==
    /\ sec.config.enabled
    /\ sec.config.per_user
    /\ sec.config.per_tool
    /\ sec.last.op = "check_rate_limit"
    /\ sec.last.user_id /= NoId
    /\ ~sec.last.allowed
    /\ sec.last.info.key = "tool:t"

(***************************************************************************)
(* C14: the time checks of JWT verification.                               *)
(***************************************************************************)
\* The token last decoded was whole and signed with the handler's key.
CorrectlySigned == Len(auth.token) = 3 /\ auth.signed_with = auth.handler.secret_key

\* The decoded token is past its expiry / not yet issued, at the time of the
\* decoding, for a handler that checks it.
Expired(h, q, t) == h.verify_exp /\ "exp" \in DOMAIN q /\ t > q.exp + h.leeway
NotYetIssued(h, q, t) == h.verify_iat /\ "iat" \in DOMAIN q /\ t < q.iat - h.leeway

DefaultJwtConfig(h) == h.verify_exp /\ h.verify_iat /\ h.leeway = 0

\* C14: a correctly signed token is rejected iff (exp is checked, present and
\* now > exp + leeway) or (iat is checked, present and now < iat - leeway);
\* otherwise it decodes to its original payload; and with the default
\* configuration a token whose exp is in the past fails with the expiry error.
C14_TimeChecks ==
    (auth.out.op = "decode" /\ CorrectlySigned) =>
        LET h == auth.handler
            q == auth.original
            t == auth.out.t
        IN  /\ ~auth.out.ok <=> (Expired(h, q, t) \/ NotYetIssued(h, q, t))
            /\ auth.out.ok =>
                   /\ auth.out.payload = q
                   /\ auth.out.payload.sub = q.sub
                   /\ auth.out.payload.permissions = q.permissions
            /\ (DefaultJwtConfig(h) /\ "exp" \in DOMAIN q /\ q.exp < t) =>
                   (~auth.out.ok /\ auth.out.error = "JWT token has expired")

\* A correctly signed token past its exp is refused as expired by a handler
\* with the default configuration.
C14_Witness ==
    /\ auth.out.op = "decode"
    /\ CorrectlySigned
    /\ DefaultJwtConfig(auth.handler)
    /\ "exp" \in DOMAIN auth.original
    /\ auth.original.exp < auth.out.t
    /\ auth.out.error = "JWT token has expired"

(***************************************************************************)
(* C15: bearer tokens.                                                     *)
(***************************************************************************)
\* The credential with an optional "Bearer " prefix removed.
WithoutBearer(text) == IF text /= <<>> /\ text[1] = "Bearer " THEN SubSeq(text, 2, Len(text)) ELSE text

\* C15: authenticate succeeds iff the credential, an optional 'Bearer '
\* prefix removed, is a valid token, and gives the user id and permissions
\* mapped to it; it fails with AUTH_MISSING_TOKEN without a credential and
\* with AUTH_INVALID_TOKEN for an unknown token; a token that add_token or
\* remove_token was called with is valid iff the latest of them was add_token.
C15_TokenAuth ==
    /\ \A k \in DOMAIN auth.recent :
           k \in auth.tokens.valid_tokens <=> auth.recent[k] = "add"
    /\ auth.tok_out.op = "authenticate" =>
           LET c == auth.tok_out.credentials
               r == auth.tok_out.result
               k == WithoutBearer(c.text)
               h == auth.tokens
           IN  IF ~c.present \/ c.text = <<>>
               THEN ~r.success /\ r.error_code = "AUTH_MISSING_TOKEN"
               ELSE /\ r.success <=> k \in h.valid_tokens
                    /\ ~r.success => r.error_code = "AUTH_INVALID_TOKEN"
                    /\ r.success =>
                           /\ k \in DOMAIN h.user_map => r.user_id = h.user_map[k]
                           /\ k \in DOMAIN h.permissions_map =>
                                  r.permissions = h.permissions_map[k]

\* A token added at run time is accepted behind the prefix, as the user it
\* was added for.
C15_Witness ==
    /\ <<"a">> \in DOMAIN auth.recent
    /\ auth.recent[<<"a">>] = "add"
    /\ auth.tok_out.op = "authenticate"
    /\ auth.tok_out.credentials = Credentials(<<"Bearer ", "a">>)
    /\ auth.tok_out.result.success
    /\ auth.tok_out.result.user_id = <<"bob">>

(***************************************************************************)
(* C16: what comes before the handler.                                     *)
(***************************************************************************)
\* The steps taken so far, and those that went well.
StepsTaken(c) == {c.trace[i].step : i \in 1..Len(c.trace)}
StepsPassed(c) == {c.trace[i].step : i \in {j \in 1..Len(c.trace) : c.trace[j].ok}}

\* The steps an interceptor puts before the handler of a call it checks.
StepsRequired(c) ==
    {"authenticate"}
    \cup (IF c.interceptor = "security" /\ c.config.enable_rate_limiting
          THEN {"rate_limit"} ELSE {})
    \cup (IF c.interceptor = "security" /\ c.config.enable_input_sanitization
          THEN {"sanitize"} ELSE {})

IsHealthCheckOrInitialize(c) ==
    c.method \in {Method("HealthCheck"), Method("Initialize")}

\* C16: a HealthCheck or Initialize call reaches its handler with no step
\* before it; in any other call the handler is reached only with
\* authentication (and, in the security interceptor, rate limiting and
\* sanitization) passed before it, and never once a step has failed.
C16_HandlerLast ==
    LET c == auth.call
    IN  IF c.pc = "idle" THEN TRUE
        ELSE IF IsHealthCheckOrInitialize(c)
        THEN /\ StepsTaken(c) \subseteq {"handler"}
             /\ c.pc = "done" => c.trace = <<Event("handler", TRUE)>>
        ELSE /\ "handler" \in StepsTaken(c) =>
                    /\ c.trace[Len(c.trace)].step = "handler"
                    /\ StepsRequired(c) \subseteq StepsPassed(c)
             /\ StepsPassed(c) /= StepsTaken(c) => "handler" \notin StepsTaken(c)

\* An ExecuteTool call through the security interceptor reaches its handler
\* after the three steps.
C16_Witness ==
    /\ auth.call.interceptor = "security"
    /\ auth.call.method = Method("ExecuteTool")
    /\ auth.call.pc = "done"
    /\ Len(auth.call.trace) = 5
    /\ auth.call.trace[1] = Event("authenticate", TRUE)
    /\ auth.call.trace[2] = Event("rate_limit", TRUE)
    /\ auth.call.trace[4] = Event("sanitize", TRUE)
    /\ auth.call.trace[5] = Event("handler", TRUE)

(***************************************************************************)
(* C17: tools that require auth.                                           *)
(***************************************************************************)
\* The call answered was for a known tool that requires auth, by an
\* authenticated caller without one of the permissions the tool names.
LacksPermission ==
    /\ rpc.st = "responded"
    /\ rpc.method \in {"ExecuteTool", "StreamTool"}
    /\ rpc.request.tool_name \in DOMAIN tools
    /\ rpc.policy.requires_auth
    /\ rpc.caller.authenticated
    /\ \E i \in 1..Len(rpc.policy.required_permissions) :
           rpc.policy.required_permissions[i] \notin rpc.caller.permissions

\* The function of the tool was not called in this call.
BodyNotRun == ~rpc.out.body_ran /\ stream = NoStream

\* The part of the claim that holds: the body is not run, and an empty
\* required_permissions refuses nobody.
C17_BodyNeverRuns ==
    /\ LacksPermission => BodyNotRun /\ rpc.response.which = "error"
    /\ (rpc.st = "responded" /\ rpc.policy.required_permissions = <<>>) =>
           rpc.out.message /= "Insufficient permissions for this tool"

\* C17: in ExecuteTool and in StreamTool, when the tool requires auth and the
\* caller lacks one of its required_permissions, the body is not run and the
\* response carries an error with the code AUTH_REQUIRED; with no
\* required_permissions the check passes.
C17_AsStated ==
    /\ C17_BodyNeverRuns
    /\ LacksPermission => rpc.response.error.code = "AUTH_REQUIRED"

(***************************************************************************)
(* C18: the best agent for a capability.                                   *)
(***************************************************************************)
Looked == a2a.last.op = "find_best_agent"

\* The agent has a capability with this name / one that has every requirement.
Provides(agent, capability_name) ==
    \E i \in 1..Len(agent.capabilities) : agent.capabilities[i].name = capability_name
MeetsRequirements(agent, capability_name, requirements) ==
    \E i \in 1..Len(agent.capabilities) :
        /\ agent.capabilities[i].name = capability_name
        /\ requirements \subseteq agent.capabilities[i].requirements

Eligible(agent, capability_name, requirements) ==
    /\ agent.status = "active"
    /\ Provides(agent, capability_name)
    /\ MeetsRequirements(agent, capability_name, requirements)

\* What holds of the agent returned: it is registered and active, it has
\* every requirement when some were asked for, and no active agent the
\* index lists for the capability with these requirements scores more.
C18_ActiveAndBest ==
    Looked /\ a2a.last.result /= NoAgent =>
        LET agents == a2a.registry.agents
            r == a2a.last.result
            name == a2a.last.capability_name
            reqs == a2a.last.requirements
        IN  /\ r \in DOMAIN agents
            /\ agents[r].status = "active"
            /\ reqs /= {} => Eligible(agents[r], name, reqs)
            /\ \A e \in DOMAIN agents :
                   Eligible(agents[e], name, reqs) =>
                       score_agent(agents[e], a2a.now) <= score_agent(agents[r], a2a.now)

\* C18: find_best_agent never returns an agent that is not active, that does
\* not provide the capability, or whose requirements for the capability do not
\* include every requested one; it returns an eligible agent of maximum score;
\* and it returns none when no agent provides the capability.
C18_AsStated ==
    Looked =>
        LET agents == a2a.registry.agents
            r == a2a.last.result
            name == a2a.last.capability_name
            reqs == a2a.last.requirements
        IN  /\ r /= NoAgent =>
                   /\ r \in DOMAIN agents
                   /\ Eligible(agents[r], name, reqs)
                   /\ \A e \in DOMAIN agents :
                          Eligible(agents[e], name, reqs) =>
                              score_agent(agents[e], a2a.now) <= score_agent(agents[r], a2a.now)
            /\ (\A e \in DOMAIN agents : ~Provides(agents[e], name)) => r = NoAgent

(***************************************************************************)
(* C19: the retry loop of a workflow step.                                 *)
(***************************************************************************)
\* 2^0, 2^1, ..., one sleep after each of the first n attempts.
Backoffs(n) == [i \in 1..n |-> Pow2(i - 1)]

\* The loop of step s was left with an exception.
StepFailed(s) == task[s].st = "failed"

RetryState(s) ==
    /\ StepFailed(s) /\ task[s].retry_count >= 1 =>
           /\ task[s].attempts = task[s].retry_count
           /\ task[s].sleeps = Backoffs(task[s].retry_count - 1)
           /\ task[s].last_exception = <<task[s].retry_count - 1>>
           /\ task[s].error = "delegate_task failed"
    /\ StepFailed(s) /\ task[s].retry_count = 0 =>
           /\ task[s].attempts = 0
           /\ task[s].sleeps = <<>>
           /\ task[s].last_exception = <<>>
           /\ task[s].error = "Max retries exceeded"
    /\ task[s].st = "sleeping" =>
           /\ task[s].attempts < task[s].retry_count
           /\ task[s].sleep = Pow2(task[s].attempts - 1)
           /\ task[s].sleeps = Backoffs(task[s].attempts)
    /\ task[s].st \in {"ok", "recorded"} =>
           /\ task[s].attempts \in 1..task[s].retry_count
           /\ task[s].sleeps = Backoffs(task[s].attempts - 1)

\* After the loop of s is left, no further attempt and no further sleep.
RetryOver(s) ==
    task[s].st \in {"ok", "failed"} /\ task'[s].st \in {"ok", "failed", "recorded"} =>
        /\ task'[s].attempts = task[s].attempts
        /\ task'[s].sleeps = task[s].sleeps

Prepared == a2a.prep.op = "prepared"

\* The dependencies of the step that are declared, completed and have content.
Usable ==
    {d \in Range(a2a.prep.step.depends_on) :
        /\ d \in DOMAIN a2a.prep.completed_steps
        /\ a2a.prep.completed_steps[d].content /= <<>>}

\* The first content item rendered as text: the text of a text item, the
\* serialized data of a structured item.
Rendered(item) ==
    IF item.type = "text" THEN [lit |-> item.text]
    ELSE IF item.type = "json" THEN Serialized(item.data)
    ELSE [str |-> item]

\* The pieces with the placeholder of every usable dependency replaced.
AllReplaced(pieces) ==
    [i \in DOMAIN pieces |->
        IF \E d \in Usable : pieces[i] = Placeholder(d)
        THEN LET d == CHOOSE d \in Usable : pieces[i] = Placeholder(d)
             IN  Rendered(a2a.prep.completed_steps[d].content[1])
        ELSE pieces[i]]

HasPlaceholder(value) ==
    IsStr(value) /\ \E d \in Usable : Placeholder(d) \in Range(value.str)

\* What holds: an argument without a placeholder of a usable dependency is
\* passed unchanged, and a single placeholder of a dependency whose first
\* item is a text item is replaced by that text.
C20_TextAndUnchanged ==
    Prepared =>
        \A key \in DOMAIN a2a.prep.step.arguments :
            LET value == a2a.prep.step.arguments[key]
            IN  /\ ~HasPlaceholder(value) => a2a.prep.arguments[key] = value
                /\ \A d \in Usable :
                       /\ value = Str(<<Placeholder(d)>>)
                       /\ a2a.prep.completed_steps[d].content[1].type = "text"
                       => a2a.prep.arguments[key] =
                              Str(<<[lit |-> a2a.prep.completed_steps[d].content[1].text]>>)

\* C20: each string argument with the placeholder {dep_id} of a declared,
\* completed dependency has it replaced by the first content item of the
\* dependency's result rendered as text (the text of a text item, the
\* serialized data of a structured item); other arguments are unchanged.
C20_AsStated ==
    Prepared =>
        \A key \in DOMAIN a2a.prep.step.arguments :
            LET value == a2a.prep.step.arguments[key]
            IN  a2a.prep.arguments[key] =
                    IF HasPlaceholder(value) THEN Str(AllReplaced(value.str)) ELSE value

(***************************************************************************)
(* C21: a workflow one of whose steps fails.                               *)
(***************************************************************************)
AnyFailed == \E s \in StepIds : StepFailed(s)

\* The failed step whose exception execute_workflow catches: the first in
\* the order of the gathered results, or the step the sequential loop awaits.
Triggering ==
    IF parallel_execution
    THEN ready_steps[CHOOSE i \in 1..Len(ready_steps) :
                         /\ StepFailed(ready_steps[i])
                         /\ \A j \in 1..(i - 1) : ~StepFailed(ready_steps[j])]
    ELSE sorted_steps[seq_idx]

\* C21: when a step has failed, no step that depends on it, directly or
\* transitively, has been started; and execute_workflow returns success=false
\* with the error of the triggering step and a steps map of steps that were
\* started, did not fail and were recorded as completed.
C21_FailureStops ==
    /\ \A s \in DOMAIN step_map, d \in DOMAIN step_map :
           StepFailed(s) /\ s \in DependsOn(step_map, d) => ~Begun(d)
    /\ Returned /\ AnyFailed =>
           /\ ~wf_result.success
           /\ StepFailed(Triggering)
           /\ wf_result.error = task[Triggering].error
           /\ wf_result.steps = completed_steps
           /\ \A s \in wf_result.steps :
                  Begun(s) /\ ~StepFailed(s) /\ Triggering \notin DependsOn(step_map, s)

\* A workflow has returned after a failure with a completed step in its
\* steps map and a step that waited for the failed one.
C21_Witness ==
    /\ Returned
    /\ AnyFailed
    /\ wf_result.steps /= {}
    /\ \E d \in DOMAIN step_map : Triggering \in DependsOn(step_map, d) /\ ~Begun(d)

(***************************************************************************)
(* C22: local execution before the simulated remote call.                  *)
(***************************************************************************)
\* execute_capability was called for a capability that the agent has.
Executed ==
    /\ a2a.exec.op = "execute_capability"
    /\ a2a.exec.agent_id \in DOMAIN a2a.exec.agents
    /\ \E i \in 1..Len(a2a.exec.agents[a2a.exec.agent_id].capabilities) :
           a2a.exec.agents[a2a.exec.agent_id].capabilities[i].name = a2a.exec.capability_name

\* The capability executed (the agents here have one capability of a name).
TheCapability ==
    LET capabilities == a2a.exec.agents[a2a.exec.agent_id].capabilities
    IN  capabilities[CHOOSE i \in 1..Len(capabilities) :
                         capabilities[i].name = a2a.exec.capability_name]
Resolvable == Loaded(TheCapability, a2a.exec.modules)
TheFunc == a2a.exec.modules[TheCapability.metadata.module][TheCapability.metadata.function]

\* What holds: without a resolvable function the result is the simulated
\* one; a function that returns a result with content, a str, a dict or
\* another value has its normalized result returned.
C22_LocalWithContent ==
    Executed =>
        /\ ~Resolvable => a2a.exec.out.kind = "return" /\ a2a.exec.out.simulated
        /\ (Resolvable /\ ~TheFunc.raises /\ result_bool(EnsureResult(TheFunc.returns))) =>
               a2a.exec.out = ExecReturns(EnsureResult(TheFunc.returns), FALSE)

\* C22: execute_capability returns the simulated result only when the
\* function of the capability is not resolvable; when it is loaded, the call
\* returns the function's normalized result, or fails with
\* AgentCommunicationError if the function fails.
C22_AsStated ==
    Executed =>
        /\ (a2a.exec.out.kind = "return" /\ a2a.exec.out.simulated) => ~Resolvable
        /\ Resolvable =>
               IF TheFunc.raises
               THEN /\ a2a.exec.out.kind = "raise"
                    /\ a2a.exec.out.exc = "AgentCommunicationError"
               ELSE a2a.exec.out = ExecReturns(EnsureResult(TheFunc.returns), FALSE)

(***************************************************************************)
(* C23: the Initialize handshake.                                          *)
(***************************************************************************)
Initialized == rpc.handshake.op = "Initialize"
VersionOne == startswith(rpc.handshake.protocol_version, <<"1", ".">>)
TheResponse ==
    InitializeResponse(<<"1", ".", "0">>,
        [name |-> rpc.handshake.servicer.server_name,
         version |-> rpc.handshake.servicer.version],
        rpc.handshake.servicer.capabilities)

\* What holds: a version that starts with "1." is answered with "1.0", the
\* server's name and version and the capability map; another version is
\* rejected where context.abort raises when it is called.
C23_VersionOneAnswered ==
    Initialized =>
        /\ VersionOne =>
               rpc.handshake.out.status = "OK" /\ rpc.handshake.out.response = TheResponse
        /\ ~VersionOne /\ rpc.handshake.abort_raises =>
               /\ rpc.handshake.out.status = "FAILED_PRECONDITION"
               /\ ~rpc.handshake.out.response.sent

\* C23: Initialize rejects every request whose protocol_version does not
\* start with "1." with FAILED_PRECONDITION and sends no InitializeResponse
\* for it; a request whose version starts with "1." is answered with "1.0",
\* the server's name and version and the capability map.
C23_AsStated ==
    Initialized =>
        IF VersionOne
        THEN rpc.handshake.out.status = "OK" /\ rpc.handshake.out.response = TheResponse
        ELSE /\ rpc.handshake.out.status = "FAILED_PRECONDITION"
             /\ ~rpc.handshake.out.response.sent

(***************************************************************************)
(* C24: the configured limit after adaptive checks.                        *)
(***************************************************************************)
\* The limit the limiter was constructed with: __init__ kept it, per
\* minute, as the refill rate.
ConfiguredLimit == sec.refill_rate
AllReturned == \A th \in Threads : sec.threads[th].pc = "idle"

\* C24: after any number of AdaptiveRateLimiter.check_rate_limit calls,
\* concurrent ones on different threads included, have all returned,
\* config.requests_per_minute equals the originally configured value.
C24_AsStated ==
    AllReturned => sec.config.requests_per_minute = ConfiguredLimit

(***************************************************************************)
(* C25: the limit an adaptive check enforces.                              *)
(***************************************************************************)
\* The limit scaled by the load known when the check is made.
ScaledLimit == _get_adaptive_limit(ConfiguredLimit, sec.load_history)

\* Thread th makes the step that decides its call.
Decides(th) == sec.threads[th].pc = "check" /\ sec'.threads[th].pc = "restore"

\* The decision for the key of th's call when its bucket gains tokens at
\* `limit` per minute.
DecisionAgainst(th, limit) ==
    LET kw == sec.threads[th].kwargs
        key == Head(RateLimitKeys(sec.config, kw.user_id, NoId, NoId))
        b == BucketOf(sec.token_buckets, sec.config, limit, key, sec.now)
    IN  consume([b EXCEPT !.refill_rate = limit], kw.request_size, sec.now).ok

\* C25: while the average of the load samples exceeds 0.8, 0.6 or 0.4 an
\* adaptive check enforces 50%, 70% or 90% of requests_per_minute: the
\* admission decision for a key is taken against the scaled limit; at an
\* average of 0.4 or less the limit is unscaled.
C25_AsStated ==
    [][\A th \in Threads :
          Decides(th) => sec'.threads[th].verdict.allowed = DecisionAgainst(th, ScaledLimit)]_vars

\* What holds: the decision is taken against the configured limit whatever
\* the load, and the scaled limit is what a refusal reports as its limit.
C25_ConfiguredDecides ==
    [][\A th \in Threads :
          Decides(th) =>
              /\ sec'.threads[th].verdict.allowed = DecisionAgainst(th, ConfiguredLimit)
              /\ ~sec'.threads[th].verdict.allowed =>
                     sec'.threads[th].verdict.limit = sec.config.requests_per_minute]_vars

(***************************************************************************)
(* C26: get_all_limits comes back.                                         *)
(***************************************************************************)
InGetAllLimits(th) ==
    /\ sec.threads[th].stack # <<>>
    /\ Top(sec.threads[th].stack) = "get_all_limits"
SomeBucket == DOMAIN sec.token_buckets # {}
GotAllLimits(th) ==
    /\ sec.threads[th].returned
    /\ {r[1] : r \in sec.threads[th].results} = DOMAIN sec.token_buckets

\* C26: RateLimiter.get_all_limits, and get_security_metrics which calls
\* it, terminate and return a status entry for every key with a bucket,
\* whenever at least one bucket exists.
C26_AsStated ==
    \A th \in Threads : (InGetAllLimits(th) /\ SomeBucket) ~> GotAllLimits(th)

\* What holds: with no bucket the call returns the empty dict, and a thread
\* that begins the loop over one bucket or more never returns from it.
C26_OnlyWhenEmpty ==
    /\ \A th \in Threads : (InGetAllLimits(th) /\ sec.threads[th].pc = "loop") =>
           sec.lock = th
    /\ [][\A th \in Threads :
              (InGetAllLimits(th) /\ sec'.threads[th].returned) =>
                  sec.threads[th].keys = <<>> /\ sec'.threads[th].results = {}]_vars

(***************************************************************************)
(* C27: the counters of the middleware.                                    *)
(***************************************************************************)
Metrics == sec.security_metrics
Violations ==
    Metrics.auth_failures + Metrics.rate_limit_violations + Metrics.sanitization_violations

\* A process_request call comes to its end in this step.
CallEnds == sec'.done = sec.done + 1
Processed ==
    /\ sec'.security_metrics.requests_processed = Metrics.requests_processed + 1
    /\ sec'.security_metrics.requests_blocked = Metrics.requests_blocked
Blocked ==
    /\ sec'.security_metrics.requests_blocked = Metrics.requests_blocked + 1
    /\ sec'.security_metrics.requests_processed = Metrics.requests_processed

\* C27: after any sequence of process_request calls since the last reset of
\* the metrics, every call incremented exactly one of requests_processed
\* and requests_blocked, and requests_blocked equals auth_failures +
\* rate_limit_violations + sanitization_violations.
C27_Counters ==
    /\ [](/\ Metrics.requests_processed + Metrics.requests_blocked = sec.done
          /\ Metrics.requests_blocked = Violations)
    /\ [][CallEnds => (Processed \/ Blocked)]_vars

\* Requests of every kind have been refused and one let through.
C27_Witness ==
    /\ Metrics.requests_processed > 0
    /\ Metrics.auth_failures > 0
    /\ Metrics.rate_limit_violations + Metrics.sanitization_violations > 0

(***************************************************************************)
(* C28: objects nested too deep.                                           *)
(***************************************************************************)
Sanitized == sec.sanitizer.called
Levels == Len(sec.sanitizer.data)

\* The longest run of dicts directly inside one another, less one: the
\* greatest depth _sanitize_dict is called with.
RECURSIVE DictRun(_, _, _)
DictRun(data, run, best) ==
    IF data = <<>> THEN best
    ELSE IF Head(data) = "dict"
         THEN DictRun(Tail(data), run + 1, Max(best, run + 1))
         ELSE DictRun(Tail(data), 0, best)

\* C28: InputSanitizer rejects with a Validation error any object nested
\* more than max_json_depth levels deep; under the default max_json_depth
\* of 10 an object nested 11 levels deep fails.
C28_AsStated ==
    (Sanitized /\ Levels > sec.sanitizer.max_json_depth) =>
        sec.sanitizer.raised = "ValidationError"

\* What holds: an object is rejected exactly when more than
\* max_json_depth + 1 dicts lie directly inside one another.
C28_DictRuns ==
    Sanitized =>
        (sec.sanitizer.raised = "ValidationError"
            <=> DictRun(sec.sanitizer.data, 0, 0) > sec.sanitizer.max_json_depth + 1)

(***************************************************************************)
(* C29: the capability index and the agent map.                            *)
(***************************************************************************)
\* How often agent_id stands in the index under the capability name.
TimesIndexed(agent_id, name) ==
    IF name \in DOMAIN a2a.registry.capabilities
    THEN Cardinality({i \in 1..Len(a2a.registry.capabilities[name]) :
                         a2a.registry.capabilities[name][i] = agent_id})
    ELSE 0

\* agent_id is registered and its AgentInfo lists a capability of the name.
RegisteredWith(agent_id, name) ==
    /\ agent_id \in DOMAIN a2a.registry.agents
    /\ \E i \in 1..Len(a2a.registry.agents[agent_id].capabilities) :
           a2a.registry.agents[agent_id].capabilities[i].name = name

\* C29: after any sequence of register_agent and unregister_agent calls,
\* registering an id that is already registered included, an agent id
\* appears under a capability name exactly once iff the agent is registered
\* and provides the capability, and no capability name maps to an empty
\* list.
C29_AsStated ==
    /\ \A agent_id \in AgentIds, name \in CapabilityNames :
           TimesIndexed(agent_id, name) = IF RegisteredWith(agent_id, name) THEN 1 ELSE 0
    /\ \A name \in DOMAIN a2a.registry.capabilities :
           a2a.registry.capabilities[name] # <<>>

\* What holds: whoever is registered with a capability stands under its
\* name at least once, every name of the index is one some registration
\* listed, and no name maps to an empty list.
C29_AtLeastOnce ==
    /\ \A agent_id \in AgentIds, name \in CapabilityNames :
           RegisteredWith(agent_id, name) => TimesIndexed(agent_id, name) >= 1
    /\ \A name \in DOMAIN a2a.registry.capabilities :
           a2a.registry.capabilities[name] # <<>>

(***************************************************************************)
(* C30: the active-workflow table.                                         *)
(***************************************************************************)
Execution(e) == a2a.orchestrator.executions[e]
Tracked(workflow_id) == workflow_id \in DOMAIN a2a.orchestrator._active_workflows

\* Execution e returns in this step.
Returns_(e) ==
    /\ Execution(e).pc = "running"
    /\ a2a'.orchestrator.executions[e].pc = "returned"

\* C30: each execute_workflow call keeps its workflow id in the
\* active-workflow table for the whole duration of its execution, and the
\* id is absent from the table after the call returns, on success and on
\* failure alike, also when several executions run at once on one
\* orchestrator.
C30_AsStated ==
    /\ [](\A e \in Executions : Execution(e).pc = "running" => Tracked(Execution(e).workflow_id))
    /\ [][\A e \in Executions :
              Returns_(e) =>
                  Execution(e).workflow_id \notin DOMAIN a2a'.orchestrator._active_workflows]_vars

\* What holds: the id is absent from the table when a call returns, on
\* success and on failure alike.
C30_AbsentOnReturn ==
    [][\A e \in Executions :
          Returns_(e) =>
              Execution(e).workflow_id \notin DOMAIN a2a'.orchestrator._active_workflows]_vars

(***************************************************************************)
(* C31: the global registry is made once.                                  *)
(***************************************************************************)
\* C31: ToolRegistry.global_registry, called from any number of threads at
\* once, constructs the global instance exactly once and returns that same
\* instance to every caller.
C31_OneInstance ==
    /\ shared.constructed <= 1
    /\ shared.handed \subseteq {1}
    /\ shared.handed # {} => shared.constructed = 1 /\ shared._global_instance = 1

\* Two threads found no instance at the first test; the one that came
\* second to the lock found the instance made, and both have it now.
C31_Witness ==
    /\ shared.handed = {1}
    /\ \E th \in RegistryThreads : shared.threads[th].found
    /\ \A th \in RegistryThreads : shared.threads[th].pc = "idle"

(***************************************************************************)
(* C32: two threads register one name.                                     *)
(***************************************************************************)
Succeeded(name) == {r \in shared.registrations : r.tool.name = name /\ r.ok}

\* C32: when two threads call register at once on one ToolRegistry with
\* tools of the same name, exactly one registration succeeds and the other
\* fails, and the registry holds the tool of the successful registration:
\* no registration is silently overwritten.
C32_AsStated ==
    \A name \in Names :
        /\ Cardinality(Succeeded(name)) <= 1
        /\ \A r \in Succeeded(name) : shared.tools[name] = r.tool

\* What holds: a registration that finds the name present fails and leaves
\* the tool that is there.
C32_LateFails ==
    [][\A th \in RegistryThreads :
          (/\ shared.threads[th].pc = "register"
           /\ shared.threads[th].tool.name \in DOMAIN shared.tools
           /\ shared'.threads[th].pc # "register")
              => /\ shared'.tools = shared.tools
                 /\ [tool |-> shared.threads[th].tool, ok |-> FALSE] \in shared'.registrations]_vars

(***************************************************************************)
(* C33: the two execution modes compared.                                  *)
(***************************************************************************)
BothRan == a2a.modes.sequential.ran /\ a2a.modes.parallel.ran

\* C33: for every workflow (cycles and depends_on ids that name no step
\* included) and fixed per-step outcomes, sequential and parallel execution
\* return the same success flag and the same set of step ids in steps.
C33_AsStated ==
    BothRan =>
        /\ a2a.modes.sequential.success = a2a.modes.parallel.success
        /\ a2a.modes.sequential.steps = a2a.modes.parallel.steps

\* What holds: when every depends_on id names a step of the workflow, the
\* two modes return the same success flag.
C33_SameFlagWhenClosed ==
    (BothRan /\ DepsClosed(a2a.modes.step_map)) =>
        a2a.modes.sequential.success = a2a.modes.parallel.success

\* What holds: when both modes succeed they return the same steps.
C33_SameStepsOnSuccess ==
    (BothRan /\ a2a.modes.sequential.success /\ a2a.modes.parallel.success) =>
        a2a.modes.sequential.steps = a2a.modes.parallel.steps

(***************************************************************************)
(* C34: what a refused call does to the buckets.                           *)
(***************************************************************************)
\* What the bucket of key k holds once the call has returned, in sixtieths.
HoldsAfter(k) ==
    Available(BucketOf(sec'.token_buckets, sec'.config, sec'.refill_rate, k, sec.now),
              sec.now)

\* A step that is a refused call of check_rate_limit.
IsRefusal == IsCheck /\ sec.config.enabled /\ ~sec'.last.allowed

\* C34: a rejected RateLimiter.check_rate_limit leaves the token count of
\* every bucket unchanged: a denied request consumes no token from any of
\* its applicable keys.
C34_AsStated ==
    [][IsRefusal =>
           \A k \in ApplicableKeys(sec.config, sec'.last) : HoldsAfter(k) = Holds(k)]_vars

\* What holds: the key that refuses the call loses no token, and neither
\* does any key outside the applicable ones.
C34_RefusingKeyKeeps ==
    [][IsRefusal =>
           /\ HoldsAfter(sec'.last.info.key) = Holds(sec'.last.info.key)
           /\ \A k \in DOMAIN sec'.token_buckets \ ApplicableKeys(sec.config, sec'.last) :
                  HoldsAfter(k) = Holds(k)]_vars

(***************************************************************************)
(* C35: the middleware over the JWT authenticator.                         *)
(***************************************************************************)
AuthenticatedRequest == auth.mw.op = "authenticate_request"

\* What the authenticator's own verification accepts at time t.
VerificationAccepts(h, q, t) ==
    CorrectlySigned /\ ~Expired(h, q, t) /\ ~NotYetIssued(h, q, t)

\* The exp of the payload lies before t.
PastExp(q, t) == "exp" \in DOMAIN q /\ t > q.exp

\* C35: authenticate_request with a JWT authenticator accepts exactly the
\* correctly signed tokens the authenticator's own verification accepts: a
\* token whose exp has passed but lies within the leeway, or any token with a
\* past exp when expiration checking is off, is authenticated and its
\* AuthContext returned.
C35_AsStated ==
    AuthenticatedRequest =>
        LET q == auth.original IN
        /\ auth.mw.returned <=> VerificationAccepts(auth.handler, q, auth.mw.t)
        /\ auth.mw.returned =>
               /\ auth.mw.context.user_id = q.sub
               /\ auth.mw.context.permissions = q.permissions

\* What holds: a token is authenticated iff the verification accepts it and
\* its exp, if it has one, has not passed, whatever the leeway and verify_exp.
C35_NeverPastExp ==
    AuthenticatedRequest =>
        LET q == auth.original IN
        /\ auth.mw.returned <=>
               (VerificationAccepts(auth.handler, q, auth.mw.t) /\ ~PastExp(q, auth.mw.t))
        /\ (VerificationAccepts(auth.handler, q, auth.mw.t) /\ PastExp(q, auth.mw.t)) =>
               auth.mw.error = "Authentication token expired"

(***************************************************************************)
(* C36: the anonymous identity and the permission check.                   *)
(***************************************************************************)
\* The call answered was made by the anonymous identity for a known tool.
AnonymousCall ==
    /\ rpc.st = "responded"
    /\ rpc.method \in {"ExecuteTool", "StreamTool"}
    /\ rpc.request.tool_name \in DOMAIN tools
    /\ rpc.caller = AnonymousCaller

Refused == rpc.out.message = "Insufficient permissions for this tool"

\* C36: the anonymous identity of the No-Auth authenticator, holding the
\* wildcard permission '*', satisfies every permission check: the check
\* passes for any required_permissions list, so a server without an
\* authenticator can execute every tool that declares required permissions.
C36_AsStated == AnonymousCall => ~Refused

\* What holds: '*' is a permission like any other; the anonymous identity is
\* refused exactly when the tool requires auth and names a permission other
\* than '*'.
C36_StarIsLiteral ==
    AnonymousCall =>
        (Refused <=>
            /\ rpc.policy.requires_auth
            /\ \E i \in 1..Len(rpc.policy.required_permissions) :
                   rpc.policy.required_permissions[i] /= "*")

(***************************************************************************)
(* C37: one argument with placeholders of several dependencies.            *)
(***************************************************************************)
\* The usable dependencies whose placeholder the value holds.
Referenced(value) ==
    IF IsStr(value) THEN {d \in Usable : Placeholder(d) \in Range(value.str)} ELSE {}

\* The placeholder of d is still in the prepared argument.
Left(key, d) == Placeholder(d) \in Range(a2a.prep.arguments[key].str)

\* The one of the dependencies D that comes last in depends_on.
LastOf(D) ==
    LET deps == a2a.prep.step.depends_on
        at(d) == CHOOSE i \in 1..Len(deps) : deps[i] = d /\ \A j \in (i + 1)..Len(deps) : deps[j] /= d
    IN  CHOOSE d \in D : \A e \in D : at(e) <= at(d)

\* C37: when one string argument of a workflow step holds placeholders for
\* two or more completed dependencies, every one of them is substituted.
C37_AsStated ==
    Prepared =>
        \A key \in DOMAIN a2a.prep.step.arguments :
            LET D == Referenced(a2a.prep.step.arguments[key])
            IN  Cardinality(D) >= 2 => \A d \in D : ~Left(key, d)

\* What holds: of several placeholders in one argument only that of the
\* dependency last in depends_on is substituted, the others are left; a
\* single one is always substituted.
C37_LastWins ==
    Prepared =>
        \A key \in DOMAIN a2a.prep.step.arguments :
            LET D == Referenced(a2a.prep.step.arguments[key])
            IN  D /= {} => \A d \in D : Left(key, d) <=> d /= LastOf(D)

(***************************************************************************)
(* C38: the steps map of a workflow that fails in parallel mode.           *)
(***************************************************************************)
\* The step's _execute_workflow_step call returned a result.
Succeeded_(s) == task[s].st = "ok"

FailedInParallel == Returned /\ parallel_execution /\ AnyFailed

\* The place of step s in ready_steps, the order of the gathered results.
PlaceOf(s) == CHOOSE i \in 1..Len(ready_steps) : ready_steps[i] = s

\* C38: in a workflow that fails in parallel mode every step that completed
\* successfully, those of the failing step's own wave included, is in the
\* returned steps map.
C38_AsStated ==
    (Returned /\ parallel_execution /\ ~wf_result.success) =>
        \A s \in DOMAIN step_map : Succeeded_(s) => s \in wf_result.steps

\* What holds: a successful step is missing from the steps map exactly when
\* it ran in the failing wave and its result comes after the first failed
\* one in the order of ready_steps.
C38_UpToFirstFailure ==
    FailedInParallel =>
        \A s \in DOMAIN step_map :
            Succeeded_(s) =>
                (s \notin wf_result.steps <=>
                    /\ s \in Range(ready_steps)
                    /\ PlaceOf(s) > PlaceOf(Triggering))

(***************************************************************************)
(* C39: objects reached through arrays.                                    *)
(***************************************************************************)
\* The depth of the innermost object counted in objects alone, the root
\* object at depth 0 as _sanitize_dict has it.
ObjectDepth(data) == Cardinality({i \in 1..Len(data) : data[i] = "dict"}) - 1

ThroughArrays(data) == \E i \in 1..Len(data) : data[i] = "list"

\* C39: the depth limit applies to the whole value tree: an object reached
\* through one or more arrays is counted at its true nesting depth, so no
\* input whose object nesting exceeds max_json_depth is accepted because
\* arrays stand between the objects.
C39_AsStated ==
    (Sanitized /\ ObjectDepth(sec.sanitizer.data) > sec.sanitizer.max_json_depth) =>
        sec.sanitizer.raised = "ValidationError"

\* What holds: without an array between the objects the limit is kept.
C39_WithoutArrays ==
    (Sanitized /\ ~ThroughArrays(sec.sanitizer.data)) =>
        (sec.sanitizer.raised = "ValidationError"
            <=> ObjectDepth(sec.sanitizer.data) > sec.sanitizer.max_json_depth)

(***************************************************************************)
(* C40: a step with retry_count 0.                                         *)
(***************************************************************************)
\* The _execute_workflow_step call for s, made with retry_count 0, is over.
OverWithZero(s) ==
    /\ task[s].st \in {"ok", "failed", "recorded"}
    /\ task[s].retry_count = 0

\* C40: a step with retry_count 0 is still delegated once (zero retries
\* means one attempt), so it succeeds whenever its single delegated
\* execution succeeds.
C40_AsStated ==
    \A s \in StepIds :
        OverWithZero(s) =>
            /\ task[s].attempts = 1
            /\ task[s].last_exception = <<>> => ~StepFailed(s)

\* What holds: a step with retry_count 0 is never delegated and always
\* fails, with an exception that no delegated execution raised.
C40_NeverDelegated ==
    \A s \in StepIds :
        OverWithZero(s) =>
            /\ StepFailed(s)
            /\ task[s].attempts = 0
            /\ task[s].last_exception = <<>>
            /\ task[s].error = "Max retries exceeded"

====
